---- MODULE Spec2Model ----
(***************************************************************************)
(* PlaneAge: the registry read path and the FAA data-refresh pipeline.     *)
(*                                                                         *)
(*   Spec        scripts/refresh-faa.js (download, extract, atomicSwap,    *)
(*               optional Cloud Storage mirror) run repeatedly on one data *)
(*               directory, with a registry reader that opens the data     *)
(*               files while the refresh runs.                             *)
(*   SpecCron    scripts/refresh-cron.js: the timer-driven maybeRefresh    *)
(*               and the refresh children it spawns.                       *)
(*   SpecLookup  the server's findAircraftInMasterCsv and                  *)
(*               findAircraftInAcftRef: one streamed lookup over lines of  *)
(*               characters, with the CSV tokenizers and the header schema *)
(*               resolvers.                                                *)
(***************************************************************************)
EXTENDS Integers, Sequences, FiniteSets, TLC

(***************************************************************************)
(* Bounds of the model.                                                    *)
(***************************************************************************)
\* refresh-faa.js runs on the same data directory
MaxRuns == 2
\* operations that fail within one run (the first failure enters a catch
\* block; a second one can only be a rollback rename that fails too)
MaxFaults == 2
\* invocations of maybeRefresh: the one main awaits, then the timer's
MaxInvocations == 4
\* characters in a line of a registry file
MaxLineLen == 3
\* characters in the key a lookup is called with
MaxKeyLen == 2
\* 'line' events one lookup receives
MaxRows == 3
\* elements in the array a flight-data response holds
MaxItems == 2

(***************************************************************************)
(* The data directory: a map from the seven paths of refresh-faa.js to an  *)
(* inode (0: no such file), and the state of every inode.  A rename moves  *)
(* the inode, so a reader that holds an inode keeps it whatever happens to *)
(* the path it opened.                                                     *)
(***************************************************************************)
zipPath == "temp.zip"
extractedMasterPath == "MASTER.txt"
extractedAcftRefPath == "ACFTREF.txt"
masterPath == "master.csv"
acftRefPath == "acftref.csv"
oldMasterPath == "master.old"
oldAcftRefPath == "acftref.old"
\* where adm-zip writes an entry whose base name is not the expected one
strayPath == "stray.txt"

Paths ==
  {zipPath, extractedMasterPath, extractedAcftRefPath, masterPath,
   acftRefPath, oldMasterPath, oldAcftRefPath, strayPath}

\* the paths server.js opens for reading
masterCsvPath == masterPath
acftRefCsvPath == acftRefPath
ReaderPaths == {masterCsvPath, acftRefCsvPath}

NoFile == 0
\* run r creates ZipInode(r), MasterInode(r), AcftRefInode(r); the registry
\* files of the initial directory are those of "run 0"
ZipInode(r) == 3 * r
MasterInode(r) == 3 * r + 1
AcftRefInode(r) == 3 * r + 2
InitMasterInode == MasterInode(0)
InitAcftRefInode == AcftRefInode(0)
Inodes == 1..(3 * MaxRuns + 2)

VARIABLES
  pc,          \* refresh-faa.js: the await the run is at
  run,         \* number of the current run (0: none started yet)
  dir,         \* path -> inode
  st,          \* inode -> "none" | "partial" | "complete"
  hasMaster,   \* atomicSwap's local
  hasAcftRef,  \* atomicSwap's local
  gcsBucket,   \* GCS_BUCKET is configured
  zipMaster,   \* the archive's master.txt entry: "exact" | "absent" | "misnamed"
  zipAcftRef,  \* the archive's acftref.txt entry
  objects,     \* Cloud Storage: the objects whose upload completed
  manifest,    \* Cloud Storage: the run the manifest names (0: no manifest)
  failedAt,    \* the step whose failure main caught in this run ("none")
  faults,      \* operations that failed in this run
  trail,       \* the stages this run has completed, in order
  pre,         \* dir when this run began
  exitCode,    \* process.exitCode of the last ended run (-1: none ended)
  held,        \* the reader: inode of its open stream (0: none)
  rdPath,      \* the reader: path it opened
  \* scripts/refresh-cron.js
  isRefreshing, \* the module-level guard flag
  mainPc,       \* main: "first" | "interval" | "exited" | "crashed"
  ipc,          \* invocation of maybeRefresh -> the await it is at
  spawned,      \* the invocations whose refresh-faa.js child is running
  stale,        \* master.csv is older than MAX_AGE_DAYS
  startedBusy,  \* the invocations that began while a child was running
  \* server.js: one call of findAircraftInMasterCsv / findAircraftInAcftRef
  table,        \* "master" | "acftref": which of the two functions
  lkKey,        \* the argument nNumber / mfrMdlCode
  needle,       \* const needle
  lkState,      \* "idle" | "reading" | "matched" | "closed"
  settled,      \* let settled
  found,        \* let found (NoRecord: null)
  schema,       \* let schema (NoSchema: null)
  sawFirstLine, \* let sawFirstLine
  outcome,      \* the promise: "pending" | "resolved" | "rejected"
  result,       \* the value the promise resolved with
  foundLine,    \* the line `found` was built from
  lineNo,       \* 'line' events so far
  errored,      \* the code of the error the stream emitted ("none": no error)
  firstLine,    \* what the first non-empty line held and what the handler
                \* did with it (NoLine: no such line yet)
  firstRow,     \* the earliest data row delivered whose identifier, as the
                \* tokenizer reads it, equals the key (<<>>: none yet)
  \* server.js: one call of resolveAircraftSpecsByNNumber
  rpc,          \* "idle" | "awaitMaster" | "awaitRef" | "done" | "failed"
  aircraft,     \* const aircraft (NoRecord: null, or not yet known)
  ref,          \* const ref (NoRecord: null, or not looked up)
  specs,        \* the value the call returned (NoRecord: null)
  refCalled,    \* findAircraftInAcftRef was called
  \* server.js: one call of fetchTailNumber
  fpc,          \* "idle" | "awaitFetch" | "awaitJson" | "returned"
  timerArmed,   \* setTimeout(() => controller.abort(), timeoutMs) is pending
  aborted,      \* controller.abort() was called
  elapsed,      \* timeoutMs passed while the call was in progress
  tailResult,   \* the value the call returned
  fetchCalls,   \* calls of fetchImpl
  tailData,     \* fetchTailNumber's `data`: the parsed body
  \* server.js: one POST /check-flight request
  rapidApiKey,  \* RAPIDAPI_KEY is set
  hpc,          \* "idle" | "awaitTail" | "awaitSpecs" | "responded"
  req,          \* req.body
  response,     \* the status and body sent
  \* server.js: extractRegistrationFromFlightResponse applied to one value
  data,         \* the argument
  extracted,    \* the value returned (NotExtracted before the call)
  \* refresh-faa.js: one call of downloadToFile and the calls it chains
  dlVariant,      \* "counted" (with redirectsLeft) | "uncounted"
  maxRedirects,   \* MAX_REDIRECTS as the environment sets it
  dpc,            \* "idle" | "requesting" | "piping" | "resolved" | "rejected"
  redirectsLeft,  \* the parameter of the current call
  redirectsSeen,  \* redirect responses received
  followed,       \* redirect responses followed by a new request
  pipeOpen,       \* response is being piped to destPath
  destExists,     \* destPath exists
  dlError,        \* the error the promise was rejected with
  sinceStart,     \* time since main called downloadToFile
  sinceActivity,  \* time since the socket of the current request was last active
  \* server.js: several POST /check-flight requests in progress at once
  creqs,          \* request -> [pc, body, tail, answer]
  remoteCalls,    \* flight number and date -> calls of fetchTailNumber
  scanCalls,      \* tail number -> calls of resolveAircraftSpecsByNNumber
  joined,         \* request -> the request with its key in progress when it arrived, or 0
  \* Result Cache + Coalescer (spec section 4.6): one instance
  now,            \* the clock
  maxEntries,     \* the configured maximum entry count
  cache,          \* the entries, least recently touched first
  got,            \* the last get: [key, value, at, set, evicted]
  lastSet,        \* key -> the value and expiry of the last set of the key
  evicted,        \* keys whose entry left the cache for capacity since their last set
  tickets,        \* the keys that have an in-flight ticket
  ops,            \* key -> state of the underlying operation last started
  callers,        \* caller -> [pc, key, saw, hit, started, result]
  factoryCalls,   \* key -> calls of the factory
  \* the first field of one line, read both ways
  csvLine,        \* the line
  fastFirst,      \* the identifier readFirstCsvField gives (NotRead: not yet)
  tokenFirst,     \* the identifier parseCsvLine gives (NotRead: not yet)
  \* the fields of that line, read by both tokenizers
  wantedIndices,  \* the indices makeWantedCsvIndices is called with
  selected,       \* the Map parseCsvFieldsAt returned
  tokens,         \* the array parseCsvLine returned
  parsed          \* which of the two has returned: "at", "line"

refreshVars ==
  <<pc, run, dir, st, hasMaster, hasAcftRef, gcsBucket, zipMaster, zipAcftRef,
    objects, manifest, failedAt, faults, trail, pre, exitCode>>
readerVars == <<held, rdPath>>
cronVars == <<isRefreshing, mainPc, ipc, spawned, stale, startedBusy>>
lookupVars ==
  <<table, lkKey, needle, lkState, settled, found, schema, sawFirstLine,
    outcome, result, foundLine, lineNo, errored, firstRow, firstLine>>
resolveVars == <<rpc, aircraft, ref, specs, refCalled>>
fetchVars == <<fpc, timerArmed, aborted, elapsed, tailResult, fetchCalls, tailData>>
handlerVars == <<rapidApiKey, hpc, req, response>>
extractVars == <<data, extracted>>
downloadVars ==
  <<dlVariant, maxRedirects, dpc, redirectsLeft, redirectsSeen, followed,
    pipeOpen, destExists, dlError, sinceStart, sinceActivity>>
\* the components no other component's specification touches
concurrentVars == <<creqs, remoteCalls, scanCalls, joined>>
cacheVars ==
  <<now, maxEntries, cache, got, lastSet, evicted, tickets, ops, callers,
    factoryCalls>>
firstFieldVars ==
  <<csvLine, fastFirst, tokenFirst, wantedIndices, selected, tokens, parsed>>
restVars == <<downloadVars, concurrentVars, cacheVars, firstFieldVars>>
\* the components above
coreVars ==
  <<refreshVars, readerVars, cronVars, lookupVars, resolveVars, fetchVars,
    handlerVars, extractVars>>
\* what the refresh pipeline and its reader never touch
notRefresh ==
  <<cronVars, lookupVars, resolveVars, fetchVars, handlerVars, extractVars,
    restVars>>
\* what the periodic driver never touches
notCron ==
  <<refreshVars, readerVars, lookupVars, resolveVars, fetchVars, handlerVars,
    extractVars, restVars>>
\* what a registry lookup never touches
notLookup ==
  <<refreshVars, readerVars, cronVars, resolveVars, fetchVars, handlerVars,
    extractVars, restVars>>
\* what the join resolver never touches
notResolve ==
  <<refreshVars, readerVars, cronVars, lookupVars, fetchVars, handlerVars,
    extractVars, restVars>>
\* what a check-flight request and the calls it makes never touch
notRequest ==
  <<refreshVars, readerVars, cronVars, lookupVars, extractVars, restVars>>
\* what extractRegistrationFromFlightResponse never touches
notExtract ==
  <<refreshVars, readerVars, cronVars, lookupVars, resolveVars, fetchVars,
    handlerVars, restVars>>
vars == <<coreVars, restVars>>

(***************************************************************************)
(* A specification of one component leaves the others in these states.     *)
(***************************************************************************)
Invocations == 1..MaxInvocations

CronParked ==
  /\ isRefreshing = FALSE
  /\ mainPc = "first"
  /\ ipc = [i \in Invocations |-> "idle"]
  /\ spawned = {}
  /\ stale = FALSE
  /\ startedBusy = {}

\* null
NoRecord == [none |-> TRUE]
NoSchema == [none |-> TRUE]
NoLine == [none |-> TRUE]

LookupParked ==
  /\ table = "master"
  /\ lkKey = <<>>
  /\ needle = <<>>
  /\ lkState = "idle"
  /\ settled = FALSE
  /\ found = NoRecord
  /\ schema = NoSchema
  /\ sawFirstLine = FALSE
  /\ outcome = "pending"
  /\ result = NoRecord
  /\ foundLine = <<>>
  /\ lineNo = 0
  /\ errored = "none"
  /\ firstRow = <<>>
  /\ firstLine = NoLine

ResolveParked ==
  /\ rpc = "idle"
  /\ aircraft = NoRecord
  /\ ref = NoRecord
  /\ specs = NoRecord
  /\ refCalled = FALSE

\* the value fetchTailNumber returns for every failure
FailedTail == [ok |-> FALSE, registration |-> <<"null">>]

\* no request, no response
NoRequest == [none |-> TRUE]
NoResponse == [none |-> TRUE]

\* `let data;` before response.json() has resolved
Unread == [unread |-> TRUE]

FetchParked ==
  /\ fpc = "idle"
  /\ timerArmed = FALSE
  /\ aborted = FALSE
  /\ elapsed = FALSE
  /\ tailResult = FailedTail
  /\ fetchCalls = 0
  /\ tailData = Unread

HandlerParked ==
  /\ rapidApiKey = TRUE
  /\ hpc = "idle"
  /\ req = NoRequest
  /\ response = NoResponse

\* no value yet
NotExtracted == <<"none">>
NoData == [isArray |-> FALSE, items |-> <<>>]

ExtractParked ==
  /\ data = NoData
  /\ extracted = NotExtracted

\* MAX_REDIRECTS = envNonNegativeInt(process.env.MAX_REDIRECTS, 5)
DefaultMaxRedirects == 5

DownloadParked ==
  /\ dlVariant = "counted"
  /\ maxRedirects = DefaultMaxRedirects
  /\ dpc = "idle"
  /\ redirectsLeft = DefaultMaxRedirects
  /\ redirectsSeen = 0
  /\ followed = 0
  /\ pipeOpen = FALSE
  /\ destExists = FALSE
  /\ dlError = "none"
  /\ sinceStart = 0
  /\ sinceActivity = 0

MaxRequests == 2

RequestIds == 1..MaxRequests

IdleRequest ==
  [pc |-> "idle", body |-> NoRequest, tail |-> FailedTail, answer |-> NoResponse]

ConcurrentParked ==
  /\ creqs = [i \in RequestIds |-> IdleRequest]
  /\ remoteCalls = <<>>
  /\ scanCalls = <<>>
  /\ joined = [i \in RequestIds |-> 0]

CacheKeys == {"k1", "k2"}

MaxCallers == 2

CallerIds == 1..MaxCallers

NoValue == "null"

IdleCaller ==
  [pc |-> "idle", key |-> "none", saw |-> "none", hit |-> FALSE,
   started |-> FALSE, result |-> NoValue]

\* everything of the cache but its configuration
CacheEmpty ==
  /\ now = 0
  /\ cache = <<>>
  /\ got = NoRecord
  /\ lastSet = [k \in CacheKeys |-> NoRecord]
  /\ evicted = {}
  /\ tickets = {}
  /\ ops = [k \in CacheKeys |-> "idle"]
  /\ callers = [c \in CallerIds |-> IdleCaller]
  /\ factoryCalls = [k \in CacheKeys |-> 0]

CacheParked == maxEntries = 0 /\ CacheEmpty

NotRead == <<"not read">>

TokenizersParked ==
  /\ wantedIndices = {}
  /\ selected = <<>>
  /\ tokens = <<>>
  /\ parsed = {}

FirstFieldParked ==
  /\ csvLine = <<>>
  /\ fastFirst = NotRead
  /\ tokenFirst = NotRead
  /\ TokenizersParked

RestParked ==
  DownloadParked /\ ConcurrentParked /\ CacheParked /\ FirstFieldParked

(***************************************************************************)
(* fs/promises                                                             *)
(***************************************************************************)
pathExists(d, p) == d[p] # NoFile
\* fsp.rename: atomically replaces `to`
Rename(d, from, to) == [d EXCEPT ![to] = d[from], ![from] = NoFile]
\* fsp.rm(p, {force: true})
Rm(d, p) == [d EXCEPT ![p] = NoFile]

CanFail == faults < MaxFaults

(***************************************************************************)
(* main of refresh-faa.js.  Every await of the script is one step, so the  *)
(* reader can run between any two file operations.  An operation that can  *)
(* fail has a failing step beside the succeeding one.                      *)
(***************************************************************************)
Entries == {"exact", "absent", "misnamed"}

\* a throw inside main's try block: control goes to `catch (err)` of main,
\* or first to the catch block of atomicSwap
Throw(stage, to) ==
  /\ pc' = to
  /\ failedAt' = stage
  /\ faults' = faults + 1

NoThrow == UNCHANGED <<failedAt, faults>>

\* fs.createWriteStream / writeFileSync on p: an existing file is truncated in
\* place, a missing one is created
OpenForWrite(d, p, fresh) == IF d[p] # NoFile THEN d[p] ELSE fresh

StartRun ==
  /\ pc = "idle"
  /\ run < MaxRuns
  /\ run' = run + 1
  /\ pc' = "download"
  /\ pre' = dir
  /\ failedAt' = "none"
  /\ faults' = 0
  /\ trail' = <<>>
  /\ UNCHANGED <<dir, st, hasMaster, hasAcftRef, gcsBucket, zipMaster,
                 zipAcftRef, objects, manifest, exitCode, readerVars, notRefresh>>

\* downloadToFile: the request fails, the status is not 200 or the redirects
\* are used up; nothing was written
DownloadRejected ==
  /\ pc = "download"
  /\ Throw("request", "cleanup")
  /\ UNCHANGED <<run, dir, st, hasMaster, hasAcftRef, gcsBucket, zipMaster,
                 zipAcftRef, objects, manifest, trail, pre, exitCode,
                 readerVars, notRefresh>>

\* downloadToFile: status 200, fs.createWriteStream(destPath)
DownloadOpen ==
  /\ pc = "download"
  /\ LET i == OpenForWrite(dir, zipPath, ZipInode(run))
     IN  /\ dir' = [dir EXCEPT ![zipPath] = i]
         /\ st' = [st EXCEPT ![i] = "partial"]
  /\ pc' = "downloading"
  /\ NoThrow
  /\ UNCHANGED <<run, hasMaster, hasAcftRef, gcsBucket, zipMaster, zipAcftRef,
                 objects, manifest, trail, pre, exitCode, readerVars, notRefresh>>

\* downloadToFile: pipeline(response, fileStream) resolves; the archive holds
\* whatever the server sent
DownloadDone ==
  /\ pc = "downloading"
  /\ st' = [st EXCEPT ![dir[zipPath]] = "complete"]
  /\ \E m \in Entries, a \in Entries :
       /\ zipMaster' = m
       /\ zipAcftRef' = a
  /\ pc' = "extractMaster"
  /\ trail' = Append(trail, "download")
  /\ NoThrow
  /\ UNCHANGED <<run, dir, hasMaster, hasAcftRef, gcsBucket, objects, manifest,
                 pre, exitCode, readerVars, notRefresh>>

\* downloadToFile: pipeline rejects mid-transfer (timeout, reset): the
\* handler removes destPath and rejects
DownloadAborted ==
  /\ pc = "downloading"
  /\ dir' = Rm(dir, zipPath)
  /\ Throw("transfer", "cleanup")
  /\ UNCHANGED <<run, st, hasMaster, hasAcftRef, gcsBucket, zipMaster,
                 zipAcftRef, objects, manifest, trail, pre, exitCode,
                 readerVars, notRefresh>>

(***************************************************************************)
(* extractTxtFromZip(zipPath, suffixLower, destPath), called for           *)
(* 'master.txt' and then for 'acftref.txt'.                                *)
(***************************************************************************)
Kinds == {"master", "acftref"}
ExtractPc(k) == IF k = "master" THEN "extractMaster" ELSE "extractAcftRef"
ExtractWritePc(k) == IF k = "master" THEN "writeMaster" ELSE "writeAcftRef"
\* mutant: main goes from the first extraction straight to atomicSwap
AfterExtractPc_SkipsSecond(k) == "swap"
AfterExtractPc(k) == IF k = "master" THEN "extractAcftRef" ELSE "swap"
ExtractedPath(k) ==
  IF k = "master" THEN extractedMasterPath ELSE extractedAcftRefPath
ExtractedInode(k, r) == IF k = "master" THEN MasterInode(r) ELSE AcftRefInode(r)
ZipEntry(k) == IF k = "master" THEN zipMaster ELSE zipAcftRef
\* mutant: the entry is extracted straight onto the registry file
ExtractTarget_OntoRegistryFile(k) ==
  IF k = "master" THEN masterPath ELSE acftRefPath
\* the path zip.extractEntryTo(entry.entryName, dataDir, false, true) writes:
\* dataDir joined with the entry's own base name
ExtractTarget(k) == IF ZipEntry(k) = "exact" THEN ExtractedPath(k) ELSE strayPath

\* no entry ends with the suffix: throw before anything is touched
ExtractNoEntry(k) ==
  /\ pc = ExtractPc(k)
  /\ ZipEntry(k) = "absent"
  /\ Throw(ExtractPc(k), "cleanup")
  /\ UNCHANGED <<run, dir, st, hasMaster, hasAcftRef, gcsBucket, zipMaster,
                 zipAcftRef, objects, manifest, trail, pre, exitCode,
                 readerVars, notRefresh>>

\* await fsp.rm(destPath, {force: true}); extractEntryTo opens its target
ExtractOpen(k) ==
  /\ pc = ExtractPc(k)
  /\ ZipEntry(k) # "absent"
  /\ LET d == Rm(dir, ExtractedPath(k))
         i == OpenForWrite(d, ExtractTarget(k), ExtractedInode(k, run))
     IN  /\ dir' = [d EXCEPT ![ExtractTarget(k)] = i]
         /\ st' = [st EXCEPT ![i] = "partial"]
  /\ pc' = ExtractWritePc(k)
  /\ NoThrow
  /\ UNCHANGED <<run, hasMaster, hasAcftRef, gcsBucket, zipMaster, zipAcftRef,
                 objects, manifest, trail, pre, exitCode, readerVars, notRefresh>>

\* extractEntryTo returns; then `if (!(await pathExists(destPath))) throw`
ExtractWritten(k) ==
  /\ pc = ExtractWritePc(k)
  /\ st' = [st EXCEPT ![dir[ExtractTarget(k)]] = "complete"]
  /\ IF pathExists(dir, ExtractedPath(k))
       THEN /\ pc' = AfterExtractPc(k)
            /\ trail' = Append(trail, ExtractPc(k))
            /\ NoThrow
       ELSE /\ Throw(ExtractPc(k), "cleanup")
            /\ UNCHANGED trail
  /\ UNCHANGED <<run, dir, hasMaster, hasAcftRef, gcsBucket, zipMaster,
                 zipAcftRef, objects, manifest, pre, exitCode, readerVars, notRefresh>>

\* extractEntryTo throws while writing (disk full): the partial file stays
ExtractWriteFails(k) ==
  /\ pc = ExtractWritePc(k)
  /\ CanFail
  /\ Throw(ExtractPc(k), "cleanup")
  /\ UNCHANGED <<run, dir, st, hasMaster, hasAcftRef, gcsBucket, zipMaster,
                 zipAcftRef, objects, manifest, trail, pre, exitCode,
                 readerVars, notRefresh>>


(***************************************************************************)
(* atomicSwap                                                              *)
(***************************************************************************)
TargetPath(k) == IF k = "master" THEN masterPath ELSE acftRefPath
OldPath(k) == IF k = "master" THEN oldMasterPath ELSE oldAcftRefPath
HasTarget(k) == IF k = "master" THEN hasMaster ELSE hasAcftRef
AsidePc(k) == IF k = "master" THEN "asideMaster" ELSE "asideAcftRef"
AfterAsidePc(k) == IF k = "master" THEN "asideAcftRef" ELSE "placeMaster"
PlacePc(k) == IF k = "master" THEN "placeMaster" ELSE "placeAcftRef"
AfterPlacePc(k) == IF k = "master" THEN "placeAcftRef" ELSE "removeOld"
RestorePc(k) == IF k = "master" THEN "restoreMaster" ELSE "restoreAcftRef"
AfterRestorePc(k) == IF k = "master" THEN "restoreAcftRef" ELSE "cleanup"

\* const hasMaster = await pathExists(masterPath); const hasAcftRef = ...
SwapStat ==
  /\ pc = "swap"
  /\ hasMaster' = pathExists(dir, masterPath)
  /\ hasAcftRef' = pathExists(dir, acftRefPath)
  /\ pc' = "asideMaster"
  /\ NoThrow
  /\ UNCHANGED <<run, dir, st, gcsBucket, zipMaster, zipAcftRef, objects,
                 manifest, trail, pre, exitCode, readerVars, notRefresh>>

\* if (hasMaster) await fsp.rename(masterPath, oldMasterPath), and the same
\* for acftref
MoveAside(k) ==
  /\ pc = AsidePc(k)
  /\ dir' = IF HasTarget(k) THEN Rename(dir, TargetPath(k), OldPath(k)) ELSE dir
  /\ pc' = AfterAsidePc(k)
  /\ NoThrow
  /\ UNCHANGED <<run, st, hasMaster, hasAcftRef, gcsBucket, zipMaster,
                 zipAcftRef, objects, manifest, trail, pre, exitCode,
                 readerVars, notRefresh>>

MoveAsideFails(k) ==
  /\ pc = AsidePc(k)
  /\ HasTarget(k)
  /\ CanFail
  /\ Throw("swap", "restoreMaster")
  /\ UNCHANGED <<run, dir, st, hasMaster, hasAcftRef, gcsBucket, zipMaster,
                 zipAcftRef, objects, manifest, trail, pre, exitCode,
                 readerVars, notRefresh>>

\* await fsp.rename(extractedMasterPath, masterPath), and the same for acftref
\* (ENOENT when the source is not there)
Place(k) ==
  /\ pc = PlacePc(k)
  /\ pathExists(dir, ExtractedPath(k))
  /\ dir' = Rename(dir, ExtractedPath(k), TargetPath(k))
  /\ pc' = AfterPlacePc(k)
  /\ NoThrow
  /\ UNCHANGED <<run, st, hasMaster, hasAcftRef, gcsBucket, zipMaster,
                 zipAcftRef, objects, manifest, trail, pre, exitCode,
                 readerVars, notRefresh>>

PlaceFails(k) ==
  /\ pc = PlacePc(k)
  /\ CanFail \/ ~pathExists(dir, ExtractedPath(k))
  /\ Throw("swap", "restoreMaster")
  /\ UNCHANGED <<run, dir, st, hasMaster, hasAcftRef, gcsBucket, zipMaster,
                 zipAcftRef, objects, manifest, trail, pre, exitCode,
                 readerVars, notRefresh>>

\* mutant: the `!` before the last pathExists is missing
ShouldRestore_NotNegated(k) ==
  /\ HasTarget(k)
  /\ pathExists(dir, OldPath(k))
  /\ pathExists(dir, TargetPath(k))

\* the condition of each `if` of atomicSwap's catch block
ShouldRestore(k) ==
  /\ HasTarget(k)
  /\ pathExists(dir, OldPath(k))
  /\ ~pathExists(dir, TargetPath(k))

\* catch (err) { if (...) { try { await fsp.rename(old, target); } catch {} } }
Restore(k) ==
  /\ pc = RestorePc(k)
  /\ dir' = IF ShouldRestore(k) THEN Rename(dir, OldPath(k), TargetPath(k)) ELSE dir
  /\ pc' = AfterRestorePc(k)
  /\ NoThrow
  /\ UNCHANGED <<run, st, hasMaster, hasAcftRef, gcsBucket, zipMaster,
                 zipAcftRef, objects, manifest, trail, pre, exitCode,
                 readerVars, notRefresh>>

\* the rollback rename fails and `catch {}` swallows it
RestoreFails(k) ==
  /\ pc = RestorePc(k)
  /\ ShouldRestore(k)
  /\ CanFail
  /\ faults' = faults + 1
  /\ pc' = AfterRestorePc(k)
  /\ UNCHANGED <<run, dir, st, hasMaster, hasAcftRef, gcsBucket, zipMaster,
                 zipAcftRef, objects, manifest, failedAt, trail, pre, exitCode,
                 readerVars, notRefresh>>

\* if (hasMaster) rm(oldMasterPath); if (hasAcftRef) rm(oldAcftRefPath);
\* rm(zipPath)
RemoveOld ==
  /\ pc = "removeOld"
  /\ LET d1 == IF hasMaster THEN Rm(dir, oldMasterPath) ELSE dir
         d2 == IF hasAcftRef THEN Rm(d1, oldAcftRefPath) ELSE d1
     IN  dir' = Rm(d2, zipPath)
  /\ pc' = "uploadMaster"
  /\ trail' = Append(trail, "swap")
  /\ NoThrow
  /\ UNCHANGED <<run, st, hasMaster, hasAcftRef, gcsBucket, zipMaster,
                 zipAcftRef, objects, manifest, pre, exitCode, readerVars, notRefresh>>

(***************************************************************************)
(* uploadToGcsIfConfigured: two versioned objects, then the manifest.      *)
(***************************************************************************)
UploadPc(k) == IF k = "master" THEN "uploadMaster" ELSE "uploadAcftRef"
\* the manifest written right after the primary upload
AfterUploadPc_SkipsAcftRef(k) == "manifest"

AfterUploadPc(k) == IF k = "master" THEN "uploadAcftRef" ELSE "manifest"

\* if (!GCS_BUCKET) return
UploadSkipped ==
  /\ pc = "uploadMaster"
  /\ ~gcsBucket
  /\ pc' = "done"
  /\ NoThrow
  /\ UNCHANGED <<run, dir, st, hasMaster, hasAcftRef, gcsBucket, zipMaster,
                 zipAcftRef, objects, manifest, trail, pre, exitCode,
                 readerVars, notRefresh>>

\* await uploadFileToGcs(bucket, p.masterPath, masterObject), then acftref
UploadFile(k) ==
  /\ pc = UploadPc(k)
  /\ gcsBucket
  /\ objects' = objects \cup {<<k, run>>}
  /\ pc' = AfterUploadPc(k)
  /\ NoThrow
  /\ UNCHANGED <<run, dir, st, hasMaster, hasAcftRef, gcsBucket, zipMaster,
                 zipAcftRef, manifest, trail, pre, exitCode, readerVars, notRefresh>>

UploadFileFails(k) ==
  /\ pc = UploadPc(k)
  /\ gcsBucket
  /\ CanFail
  /\ Throw("upload", "cleanup")
  /\ UNCHANGED <<run, dir, st, hasMaster, hasAcftRef, gcsBucket, zipMaster,
                 zipAcftRef, objects, manifest, trail, pre, exitCode,
                 readerVars, notRefresh>>

\* await uploadManifest(bucket, GCS_MANIFEST_OBJECT, {updatedAt, master, acftref})
UploadManifest ==
  /\ pc = "manifest"
  /\ manifest' = run
  /\ pc' = "done"
  /\ trail' = Append(trail, "upload")
  /\ NoThrow
  /\ UNCHANGED <<run, dir, st, hasMaster, hasAcftRef, gcsBucket, zipMaster,
                 zipAcftRef, objects, pre, exitCode, readerVars, notRefresh>>

UploadManifestFails ==
  /\ pc = "manifest"
  /\ CanFail
  /\ Throw("upload", "cleanup")
  /\ UNCHANGED <<run, dir, st, hasMaster, hasAcftRef, gcsBucket, zipMaster,
                 zipAcftRef, objects, manifest, trail, pre, exitCode,
                 readerVars, notRefresh>>

\* console.log('Done.'): main resolves, the process exits with code 0
Done ==
  /\ pc = "done"
  /\ exitCode' = 0
  /\ pc' = "idle"
  /\ NoThrow
  /\ UNCHANGED <<run, dir, st, hasMaster, hasAcftRef, gcsBucket, zipMaster,
                 zipAcftRef, objects, manifest, trail, pre, readerVars, notRefresh>>

\* mutant: cleanupTemps removes masterPath where it should remove
\* extractedMasterPath
cleanupTemps_RemovesMaster ==
  /\ pc = "cleanup"
  /\ dir' = Rm(Rm(Rm(dir, masterPath), extractedAcftRefPath), zipPath)
  /\ exitCode' = 1
  /\ pc' = "idle"
  /\ NoThrow
  /\ UNCHANGED <<run, st, hasMaster, hasAcftRef, gcsBucket, zipMaster,
                 zipAcftRef, objects, manifest, trail, pre, readerVars, notRefresh>>

\* catch (err) { await cleanupTemps(); throw err; } and then
\* main().catch(... process.exitCode = 1)
cleanupTemps ==
  /\ pc = "cleanup"
  /\ dir' = Rm(Rm(Rm(dir, extractedMasterPath), extractedAcftRefPath), zipPath)
  /\ exitCode' = 1
  /\ pc' = "idle"
  /\ NoThrow
  /\ UNCHANGED <<run, st, hasMaster, hasAcftRef, gcsBucket, zipMaster,
                 zipAcftRef, objects, manifest, trail, pre, readerVars, notRefresh>>

(***************************************************************************)
(* A registry lookup of server.js, as the refresh sees it: it opens        *)
(* master.csv or acftref.csv with fs.createReadStream and reads the inode  *)
(* it got until it closes the stream.                                      *)
(***************************************************************************)
\* fs.createReadStream(csvPath): ENOENT leaves nothing open
ReaderOpen(p) ==
  /\ held = NoFile
  /\ pathExists(dir, p)
  /\ held' = dir[p]
  /\ rdPath' = p
  /\ UNCHANGED <<refreshVars, notRefresh>>

\* rl.close(); stream.destroy(), or the end of the stream
ReaderClose ==
  /\ held # NoFile
  /\ held' = NoFile
  /\ UNCHANGED <<rdPath, refreshVars, notRefresh>>

(***************************************************************************)
(* The data directory before the first run: each registry file is there or *)
(* not (README: `npm run refresh` provisions them), nothing else is.       *)
(***************************************************************************)
Init ==
  /\ pc = "idle"
  /\ run = 0
  /\ \E m \in {NoFile, InitMasterInode}, a \in {NoFile, InitAcftRefInode} :
       /\ dir = [p \in Paths |->
                   IF p = masterPath THEN m ELSE IF p = acftRefPath THEN a ELSE NoFile]
       /\ st = [i \in Inodes |-> IF i \in {m, a} THEN "complete" ELSE "none"]
  /\ hasMaster = FALSE
  /\ hasAcftRef = FALSE
  /\ gcsBucket \in BOOLEAN
  /\ zipMaster = "absent"
  /\ zipAcftRef = "absent"
  /\ objects = {}
  /\ manifest = 0
  /\ failedAt = "none"
  /\ faults = 0
  /\ trail = <<>>
  /\ pre = dir
  /\ exitCode = -1
  /\ held = NoFile
  /\ rdPath = masterCsvPath
  /\ CronParked
  /\ LookupParked
  /\ ResolveParked
  /\ FetchParked
  /\ HandlerParked
  /\ ExtractParked
  /\ RestParked

Next ==
  \/ StartRun
  \/ DownloadRejected
  \/ DownloadOpen
  \/ DownloadDone
  \/ DownloadAborted
  \/ \E k \in Kinds : ExtractNoEntry(k)
  \/ \E k \in Kinds : ExtractOpen(k)
  \/ \E k \in Kinds : ExtractWritten(k)
  \/ \E k \in Kinds : ExtractWriteFails(k)
  \/ SwapStat
  \/ \E k \in Kinds : MoveAside(k)
  \/ \E k \in Kinds : MoveAsideFails(k)
  \/ \E k \in Kinds : Place(k)
  \/ \E k \in Kinds : PlaceFails(k)
  \/ \E k \in Kinds : Restore(k)
  \/ \E k \in Kinds : RestoreFails(k)
  \/ RemoveOld
  \/ UploadSkipped
  \/ \E k \in Kinds : UploadFile(k)
  \/ \E k \in Kinds : UploadFileFails(k)
  \/ UploadManifest
  \/ UploadManifestFails
  \/ Done
  \/ cleanupTemps
  \/ \E p \in ReaderPaths : ReaderOpen(p)
  \/ ReaderClose

Spec == Init /\ [][Next]_vars

(***************************************************************************)
(* The refresh pipeline: what the claims speak of.                         *)
(***************************************************************************)
Ended == pc = "idle" /\ run > 0
Failed == Ended /\ exitCode = 1
Succeeded == Ended /\ exitCode = 0
\* at most one operation failed in this run
SingleFault == faults <= 1
SwapPcs ==
  {"asideMaster", "asideAcftRef", "placeMaster", "placeAcftRef",
   "restoreMaster", "restoreAcftRef", "removeOld"}
TempPaths == {zipPath, extractedMasterPath, extractedAcftRefPath}
OldPaths == {oldMasterPath, oldAcftRefPath}
TargetPaths == {masterPath, acftRefPath}
Stages == <<"download", "extractMaster", "extractAcftRef", "swap", "upload">>
\* the directory holds registry files only
FreshDir(d) == \A p \in Paths \ TargetPaths : ~pathExists(d, p)

\* C1: while atomicSwap runs, a target path (master.csv, acftref.csv) that
\* existed when the swap began exists in every intermediate state.
C1_TargetNeverMissing ==
  \A k \in Kinds :
    (pc \in SwapPcs /\ HasTarget(k)) => pathExists(dir, TargetPath(k))

\* C2: after a refresh that failed (one operation failed, at any stage),
\* master.csv and acftref.csv both hold their pre-refresh contents.
C2_FailureKeepsBoth ==
  (Failed /\ SingleFault) =>
    \A k \in Kinds : dir[TargetPath(k)] = pre[TargetPath(k)]

\* C3: after a run has ended, with success or with any single failure, each
\* of master.csv and acftref.csv that was present before the run is present.
C3_PresentStaysPresent ==
  (Ended /\ SingleFault) =>
    \A k \in Kinds :
      pathExists(pre, TargetPath(k)) => pathExists(dir, TargetPath(k))

\* a swap failed after both files were moved aside, and both are back
C3_Witness ==
  /\ Failed
  /\ SingleFault
  /\ failedAt = "swap"
  /\ pre[masterPath] = InitMasterInode
  /\ pre[acftRefPath] = InitAcftRefInode
  /\ dir[masterPath] = InitMasterInode
  /\ dir[acftRefPath] = InitAcftRefInode
  /\ dir[oldMasterPath] = NoFile
  /\ dir[oldAcftRefPath] = NoFile

C5_FailureLeavesNoTemps ==
  (Failed /\ SingleFault) =>
    /\ exitCode # 0
    /\ \A p \in TempPaths \cup OldPaths : ~pathExists(dir, p)

\* C6: after a refresh that completed successfully, from any state of the
\* data directory, master.csv and acftref.csv hold the newly extracted files
\* and master.old, acftref.old, temp.zip, MASTER.txt and ACFTREF.txt are gone.
C6_SuccessLeavesOnlyNew ==
  Succeeded =>
    /\ dir[masterPath] = MasterInode(run)
    /\ dir[acftRefPath] = AcftRefInode(run)
    /\ \A p \in TempPaths \cup OldPaths : ~pathExists(dir, p)

\* C7: the stages run in the order download, extract primary, extract
\* secondary, swap; master.csv and acftref.csv are as they were before the
\* run unless the download and both extractions succeeded; an archive that
\* lacks a named entry makes the run fail with both files untouched.
C7_StagesInOrder ==
  /\ Len(trail) <= Len(Stages)
  /\ trail = SubSeq(Stages, 1, Len(trail))
  /\ (pc \in SwapPcs) => Len(trail) = 3
  /\ (run > 0 /\ \E k \in Kinds : dir[TargetPath(k)] # pre[TargetPath(k)])
       => Len(trail) >= 3
  /\ (Ended /\ Len(trail) >= 1 /\ "absent" \in {zipMaster, zipAcftRef})
       => /\ exitCode = 1
          /\ failedAt \in {"extractMaster", "extractAcftRef"}
          /\ \A k \in Kinds : dir[TargetPath(k)] = pre[TargetPath(k)]

\* the archive lacks ACFTREF.txt: the run failed after the primary was
\* extracted, with both registry files as before
C7_Witness ==
  /\ Failed
  /\ failedAt = "extractAcftRef"
  /\ zipAcftRef = "absent"
  /\ trail = <<"download", "extractMaster">>
  /\ pre[masterPath] = InitMasterInode
  /\ dir[masterPath] = InitMasterInode
  /\ dir[acftRefPath] = pre[acftRefPath]

\* C9: a file under a path that readers open is always a complete file, and
\* the file behind a stream that a lookup has open stays complete, whatever
\* the refresh does to the path it was opened under.
C9_ReadersSeeCompleteFiles ==
  /\ \A p \in ReaderPaths : pathExists(dir, p) => st[dir[p]] = "complete"
  /\ held # NoFile => st[held] = "complete"

\* a stream opened before the renames is still open when its path already
\* holds the new file
C9_Witness ==
  /\ run > 0
  /\ held = InitMasterInode
  /\ rdPath = masterCsvPath
  /\ dir[masterCsvPath] = MasterInode(run)
  /\ st[held] = "complete"

\* C22: uploads start only after the local swap has succeeded; the manifest
\* is written only after both object uploads of the run have completed, so
\* it names no object whose upload did not finish; a run that failed in the
\* upload stage leaves the manifest of an earlier run in place.
C22_ManifestAfterUploads ==
  /\ (pc \in {"uploadAcftRef", "manifest"} \/ (pc = "uploadMaster" /\ gcsBucket))
       => (Len(trail) = 4 /\ trail[4] = "swap")
  /\ \A k \in Kinds : (<<k, run>> \in objects) => Len(trail) >= 4
  /\ manifest # 0 => \A k \in Kinds : <<k, manifest>> \in objects
  /\ pc = "manifest" => \A k \in Kinds : <<k, run>> \in objects
  /\ (Failed /\ failedAt = "upload") => manifest < run

\* the second run uploaded the primary object and failed on the secondary:
\* the manifest still names the first run's objects
C22_Witness ==
  /\ Failed
  /\ failedAt = "upload"
  /\ run = 2
  /\ manifest = 1
  /\ <<"master", 2>> \in objects
  /\ <<"acftref", 2>> \notin objects

(***************************************************************************)
(* scripts/refresh-cron.js: main awaits one maybeRefresh() and then hands  *)
(* maybeRefresh to setInterval.  Each invocation is an async function: it  *)
(* runs to its next await in one step.                                     *)
(***************************************************************************)
CronAlive == mainPc \in {"first", "interval"}

\* main: `await maybeRefresh()` is invocation 1; setInterval(maybeRefresh, ...)
\* calls the others, each only once the one before it was called
MayStart(i) ==
  /\ ipc[i] = "idle"
  /\ IF i = 1 THEN mainPc = "first"
              ELSE mainPc = "interval" /\ ipc[i - 1] # "idle"

\* `if (isRefreshing) return;` and, if not, up to `await fileAgeMs(masterPath)`
MaybeRefreshBegin(i) ==
  /\ CronAlive
  /\ MayStart(i)
  /\ ipc' = [ipc EXCEPT ![i] = IF isRefreshing THEN "returned" ELSE "stat"]
  /\ startedBusy' = IF spawned # {} THEN startedBusy \cup {i} ELSE startedBusy
  /\ mainPc' = IF i = 1 /\ isRefreshing THEN "interval" ELSE mainPc
  /\ UNCHANGED <<isRefreshing, spawned, stale, notCron>>

\* `if (ageMs <= maxAgeMs) return;`
MaybeRefreshFresh(i) ==
  /\ CronAlive
  /\ ipc[i] = "stat"
  /\ ~stale
  /\ ipc' = [ipc EXCEPT ![i] = "returned"]
  /\ mainPc' = IF i = 1 THEN "interval" ELSE mainPc
  /\ UNCHANGED <<isRefreshing, spawned, stale, startedBusy, notCron>>

\* `isRefreshing = true;` and spawn(process.execPath, [refresh-faa.js])
MaybeRefreshSpawn(i) ==
  /\ CronAlive
  /\ ipc[i] = "stat"
  /\ stale
  /\ isRefreshing' = TRUE
  /\ ipc' = [ipc EXCEPT ![i] = "child"]
  /\ spawned' = spawned \cup {i}
  /\ UNCHANGED <<mainPc, stale, startedBusy, notCron>>

\* the same, but the child cannot be spawned: 'error' will be emitted
MaybeRefreshSpawnFails(i) ==
  /\ CronAlive
  /\ ipc[i] = "stat"
  /\ stale
  /\ isRefreshing' = TRUE
  /\ ipc' = [ipc EXCEPT ![i] = "child"]
  /\ UNCHANGED <<mainPc, spawned, stale, startedBusy, notCron>>

\* the promise of invocation i rejects: main().catch for the awaited one, an
\* unhandled rejection for one that setInterval called (it ends the process
\* or is only reported, depending on the Node.js version)
Rejected(i, fatal) ==
  IF i = 1 THEN "exited" ELSE IF fatal THEN "crashed" ELSE mainPc

\* child.on('close', code): resolve or reject, then
\* `.finally(() => { isRefreshing = false; })`
ChildClose(i, code, fatal) ==
  /\ ipc[i] = "child"
  /\ i \in spawned
  /\ spawned' = spawned \ {i}
  /\ stale' = IF code = 0 THEN FALSE ELSE stale
  /\ IF CronAlive
       THEN /\ isRefreshing' = FALSE
            /\ ipc' = [ipc EXCEPT ![i] = IF code = 0 THEN "returned" ELSE "rejected"]
            /\ mainPc' = IF code = 0
                           THEN (IF i = 1 THEN "interval" ELSE mainPc)
                           ELSE Rejected(i, fatal)
       ELSE UNCHANGED <<isRefreshing, ipc, mainPc>>
  /\ UNCHANGED <<startedBusy, notCron>>

\* child.on('error', reject), then the same finally
ChildError(i, fatal) ==
  /\ CronAlive
  /\ ipc[i] = "child"
  /\ i \notin spawned
  /\ isRefreshing' = FALSE
  /\ ipc' = [ipc EXCEPT ![i] = "rejected"]
  /\ mainPc' = Rejected(i, fatal)
  /\ UNCHANGED <<spawned, stale, startedBusy, notCron>>

\* time passes: master.csv grows older than MAX_AGE_DAYS
Age ==
  /\ ~stale
  /\ stale' = TRUE
  /\ UNCHANGED <<isRefreshing, mainPc, ipc, spawned, startedBusy, notCron>>

RefreshParked ==
  /\ pc = "idle"
  /\ run = 0
  /\ dir = [p \in Paths |-> NoFile]
  /\ st = [i \in Inodes |-> "none"]
  /\ hasMaster = FALSE
  /\ hasAcftRef = FALSE
  /\ gcsBucket = FALSE
  /\ zipMaster = "absent"
  /\ zipAcftRef = "absent"
  /\ objects = {}
  /\ manifest = 0
  /\ failedAt = "none"
  /\ faults = 0
  /\ trail = <<>>
  /\ pre = dir
  /\ exitCode = -1
  /\ held = NoFile
  /\ rdPath = masterCsvPath

InitCron ==
  /\ isRefreshing = FALSE
  /\ mainPc = "first"
  /\ ipc = [i \in Invocations |-> "idle"]
  /\ spawned = {}
  /\ stale \in BOOLEAN
  /\ startedBusy = {}
  /\ RefreshParked
  /\ LookupParked
  /\ ResolveParked
  /\ FetchParked
  /\ HandlerParked
  /\ ExtractParked
  /\ RestParked

NextCron ==
  \/ \E i \in Invocations : MaybeRefreshBegin(i)
  \/ \E i \in Invocations : MaybeRefreshFresh(i)
  \/ \E i \in Invocations : MaybeRefreshSpawn(i)
  \/ \E i \in Invocations : MaybeRefreshSpawnFails(i)
  \/ \E i \in Invocations, code \in {0, 1}, fatal \in BOOLEAN : ChildClose(i, code, fatal)
  \/ \E i \in Invocations, fatal \in BOOLEAN : ChildError(i, fatal)
  \/ Age

SpecCron == InitCron /\ [][NextCron]_vars

\* C8: under any interleaving of maybeRefresh invocations at most one
\* refresh child runs at any time, and an invocation that starts while a
\* refresh is running returns without spawning one.
C8_AtMostOneRefresh ==
  /\ Cardinality(spawned) <= 1
  /\ \A i \in startedBusy : ipc[i] \in {"returned"}

\* C34: the refresh guard flag is true exactly while a refresh child that
\* maybeRefresh spawned (or tried to spawn) has not yet closed or failed: it
\* is reset when the child exits with any exit code or fails to spawn, so
\* that a later scheduled check is not skipped after a failed refresh.
C34_FlagWhileChildRuns ==
  CronAlive => (isRefreshing <=> \E i \in Invocations : ipc[i] = "child")

\* ---------------------------------------------------------------------------
\* server.js: text.  A string is the sequence of its characters; a header
\* name is one symbol, so that a header line stays a short sequence.
\* ---------------------------------------------------------------------------
COMMA == ","
QUOTE == "\""
SPACE == " "
BOM == "uFEFF"
\* a letter outside a-z whose upper case differs from it
eAcute == "e-acute"
EAcute == "E-ACUTE"

\* String.prototype.trim() strips white space, U+FEFF included
WhiteSpace == {SPACE, BOM}
\* the characters with a code in 97..122
AsciiLower == {"n", "t", "n-number", "year mfr"}

DataChars == {"n", "N", eAcute, COMMA, QUOTE, SPACE, BOM}
KeyChars == {"n", "N", eAcute, SPACE, BOM}

StringsUpTo(chars, n) == UNION {[1..k -> chars] : k \in 0..n}

HeaderLines ==
  { <<"N-NUMBER", COMMA, "YEAR MFR">>,
    <<"YEAR MFR", COMMA, "N-NUMBER">>,
    <<BOM, "n-number", COMMA, "year mfr", COMMA, "MFR MDL CODE">>,
    <<"N-NUMBER">>,
    <<SPACE, "N-NUMBER", SPACE, COMMA, "year mfr", SPACE>>,
    <<"CODE", COMMA, "MFR", COMMA, "MODEL">>,
    <<"MODEL", COMMA, "MFR MDL CODE">> }

Lines == StringsUpTo(DataChars, MaxLineLen) \cup HeaderLines
Keys == StringsUpTo(KeyChars, MaxKeyLen)

UpperOf(ch) ==
  CASE ch = "n" -> "N"
    [] ch = "t" -> "T"
    [] ch = eAcute -> EAcute
    [] ch = "n-number" -> "N-NUMBER"
    [] ch = "year mfr" -> "YEAR MFR"
    [] OTHER -> ch

toUpperCase(str) == [i \in 1..Len(str) |-> UpperOf(str[i])]

RECURSIVE trimStart(_)
trimStart(str) ==
  IF str # <<>> /\ Head(str) \in WhiteSpace THEN trimStart(Tail(str)) ELSE str

RECURSIVE trimEnd(_)
trimEnd(str) ==
  IF str # <<>> /\ str[Len(str)] \in WhiteSpace
  THEN trimEnd(SubSeq(str, 1, Len(str) - 1))
  ELSE str

trim(str) == trimEnd(trimStart(str))

RECURSIVE parseCsvLineFrom(_, _, _, _, _)
parseCsvLineFrom(line, i, inQuotes, field, out) ==
  IF i > Len(line) THEN Append(out, field)
  ELSE IF inQuotes
    THEN IF line[i] = QUOTE
      THEN IF i + 1 <= Len(line) /\ line[i + 1] = QUOTE
        THEN parseCsvLineFrom(line, i + 2, TRUE, Append(field, QUOTE), out)
        ELSE parseCsvLineFrom(line, i + 1, FALSE, field, out)
      ELSE parseCsvLineFrom(line, i + 1, TRUE, Append(field, line[i]), out)
    ELSE IF line[i] = QUOTE
      THEN parseCsvLineFrom(line, i + 1, TRUE, field, out)
      ELSE IF line[i] = COMMA
        THEN parseCsvLineFrom(line, i + 1, FALSE, <<>>, Append(out, field))
        ELSE parseCsvLineFrom(line, i + 1, FALSE, Append(field, line[i]), out)

\* a tokenizer that splits at every comma and takes quotes as data
RECURSIVE SplitFrom(_, _, _, _)
SplitFrom(line, i, field, out) ==
  IF i > Len(line) THEN Append(out, field)
  ELSE IF line[i] = COMMA
    THEN SplitFrom(line, i + 1, <<>>, Append(out, field))
    ELSE SplitFrom(line, i + 1, Append(field, line[i]), out)

parseCsvLine_SplitsEverywhere(line) == SplitFrom(line, 1, <<>>, <<>>)

parseCsvLine(line) == parseCsvLineFrom(line, 1, FALSE, <<>>, <<>>)

stripLeadingBom(value) ==
  IF Len(value) > 0 /\ value[1] = BOM THEN Tail(value) ELSE value

stripAllQuotes(value) == SelectSeq(value, LAMBDA ch : ch # QUOTE)

toUpperIfNeeded(value) ==
  IF \E i \in 1..Len(value) : value[i] \in AsciiLower
  THEN toUpperCase(value)
  ELSE value

normalizeNNumberField(value) ==
  toUpperIfNeeded(trim(stripAllQuotes(stripLeadingBom(value))))

\* the quoted branch of readFirstCsvField: the loop from position i
RECURSIVE readQuotedFrom(_, _, _, _)
readQuotedFrom(str, i, inQuotes, field) ==
  IF i > Len(str) THEN field
  ELSE IF inQuotes
    THEN IF str[i] = QUOTE
      THEN IF i + 1 <= Len(str) /\ str[i + 1] = QUOTE
        THEN readQuotedFrom(str, i + 2, TRUE, Append(field, QUOTE))
        ELSE readQuotedFrom(str, i + 1, FALSE, field)
      ELSE readQuotedFrom(str, i + 1, TRUE, Append(field, str[i]))
    ELSE IF str[i] = COMMA
      THEN field
      ELSE readQuotedFrom(str, i + 1, FALSE, field)

\* str.indexOf(','), counted from 1; 0 when there is none
IndexOfComma(str) ==
  IF \E i \in 1..Len(str) : str[i] = COMMA
  THEN CHOOSE i \in 1..Len(str) :
         /\ str[i] = COMMA
         /\ \A j \in 1..(i - 1) : str[j] # COMMA
  ELSE 0

readFirstCsvField(line) ==
  IF line = <<>> THEN <<>>
  ELSE IF line[1] # QUOTE
    THEN IF IndexOfComma(line) = 0
      THEN line
      ELSE SubSeq(line, 1, IndexOfComma(line) - 1)
    ELSE readQuotedFrom(line, 2, TRUE, <<>>)

\* a column the header does not name: null
NullIdx == -1

Max(S) == CHOOSE n \in S : \A m \in S : m <= n

makeWantedCsvIndices(indices) ==
  LET unique == {n \in indices : n >= 0}
  IN [set |-> unique, max |-> IF unique # {} THEN Max(unique) ELSE -1]

\* new Map()
EmptyMap == [n \in {} |-> <<>>]
\* out.set(key, value)
MapSet(map, key, value) ==
  [n \in DOMAIN map \cup {key} |-> IF n = key THEN value ELSE map[n]]
\* String(fields.get(key) || '')
MapGet(map, key) == IF key \in DOMAIN map THEN map[key] ELSE <<>>

\* the loop of parseCsvFieldsAt from position i; columns are counted from 0
RECURSIVE parseCsvFieldsFrom(_, _, _, _, _, _, _)
parseCsvFieldsFrom(str, wanted, i, fieldIndex, inQuotes, field, out) ==
  LET collect == fieldIndex \in wanted.set
      add(ch) == IF collect THEN Append(field, ch) ELSE field
      flush == IF collect THEN MapSet(out, fieldIndex, field) ELSE out
  IN IF i > Len(str) THEN flush
     ELSE IF inQuotes
       THEN IF str[i] = QUOTE
         THEN IF i + 1 <= Len(str) /\ str[i + 1] = QUOTE
           THEN parseCsvFieldsFrom(str, wanted, i + 2, fieldIndex, TRUE,
                                   add(QUOTE), out)
           ELSE parseCsvFieldsFrom(str, wanted, i + 1, fieldIndex, FALSE,
                                   field, out)
         ELSE parseCsvFieldsFrom(str, wanted, i + 1, fieldIndex, TRUE,
                                 add(str[i]), out)
       ELSE IF str[i] = QUOTE
         THEN parseCsvFieldsFrom(str, wanted, i + 1, fieldIndex, TRUE,
                                 field, out)
         ELSE IF str[i] = COMMA
           THEN IF fieldIndex >= wanted.max
             THEN flush
             ELSE parseCsvFieldsFrom(str, wanted, i + 1, fieldIndex + 1,
                                     FALSE, <<>>, flush)
           ELSE parseCsvFieldsFrom(str, wanted, i + 1, fieldIndex, FALSE,
                                   add(str[i]), out)

\* a tokenizer that returns nothing for a line whose quotes do not balance
parseCsvFieldsAt_BalancedOnly(line, wanted) ==
  IF line = <<>> \/ Len(SelectSeq(line, LAMBDA ch : ch = QUOTE)) % 2 = 1
  THEN EmptyMap
  ELSE parseCsvFieldsFrom(line, wanted, 1, 0, FALSE, <<>>, EmptyMap)

\* a tokenizer that collects every column up to the highest wanted one
parseCsvFieldsAt_CollectsAll(line, wanted) ==
  IF line = <<>> THEN EmptyMap
  ELSE parseCsvFieldsFrom(line, [set |-> 0..wanted.max, max |-> wanted.max],
                          1, 0, FALSE, <<>>, EmptyMap)

parseCsvFieldsAt(line, wanted) ==
  IF line = <<>> THEN EmptyMap
  ELSE parseCsvFieldsFrom(line, wanted, 1, 0, FALSE, <<>>, EmptyMap)

normalizeHeaderName(value) == toUpperCase(trim(stripLeadingBom(value)))

\* indexByName.get(name) over the columns of a header line: the first column
\* with that normalized name, counted from 0; NullIdx when there is none
IndexByName(cols, name) ==
  LET hits == {i \in 1..Len(cols) : normalizeHeaderName(cols[i]) = <<name>>}
  IN IF hits = {} THEN NullIdx
     ELSE (CHOOSE i \in hits : \A j \in hits : i <= j) - 1

\* a ?? b
Coalesce(a, b) == IF a # NullIdx THEN a ELSE b

\* a resolver that asks for the identifier column only
inferMasterCsvSchemaFromHeaderLine_IdentifierOnly(line) ==
  LET cols == parseCsvLine(line)
      nNumberIdx == IndexByName(cols, "N-NUMBER")
  IN IF nNumberIdx = NullIdx THEN NoSchema
     ELSE [nNumberIdx |-> nNumberIdx,
           yearIdx |-> IndexByName(cols, "YEAR MFR"),
           mfrMdlCodeIdx |-> IndexByName(cols, "MFR MDL CODE"),
           kitManufacturerIdx |-> IndexByName(cols, "KIT MFR"),
           kitModelIdx |-> IndexByName(cols, "KIT MODEL")]

inferMasterCsvSchemaFromHeaderLine(line) ==
  LET cols == parseCsvLine(line)
      nNumberIdx == IndexByName(cols, "N-NUMBER")
      yearIdx == IndexByName(cols, "YEAR MFR")
  IN IF nNumberIdx = NullIdx \/ yearIdx = NullIdx THEN NoSchema
     ELSE [nNumberIdx |-> nNumberIdx,
           yearIdx |-> yearIdx,
           mfrMdlCodeIdx |-> IndexByName(cols, "MFR MDL CODE"),
           kitManufacturerIdx |-> IndexByName(cols, "KIT MFR"),
           kitModelIdx |-> IndexByName(cols, "KIT MODEL")]

\* the positions findAircraftInMasterCsv falls back to
MasterFallbackSchema ==
  [nNumberIdx |-> 0,
   yearIdx |-> 4,
   mfrMdlCodeIdx |-> 2,
   kitManufacturerIdx |-> 31,
   kitModelIdx |-> 32]

inferAcftRefSchemaFromHeaderLine(line) ==
  LET cols == parseCsvLine(line)
      codeIdx ==
        Coalesce(IndexByName(cols, "MFR MDL CODE"),
          Coalesce(IndexByName(cols, "CODE"), IndexByName(cols, "MFRMDLCODE")))
  IN IF codeIdx = NullIdx THEN NoSchema
     ELSE [codeIdx |-> codeIdx,
           manufacturerIdx |->
             Coalesce(IndexByName(cols, "MANUFACTURER"),
               Coalesce(IndexByName(cols, "MFR"), IndexByName(cols, "MFR NAME"))),
           modelIdx |->
             Coalesce(IndexByName(cols, "MODEL"), IndexByName(cols, "MODEL NAME")),
           typeAcftIdx |->
             Coalesce(IndexByName(cols, "TYPE-ACFT"),
               Coalesce(IndexByName(cols, "TYPE ACFT"),
                        IndexByName(cols, "TYPE AIRCRAFT")))]

\* the positions findAircraftInAcftRef falls back to
AcftRefFallbackSchema ==
  [codeIdx |-> 0, manufacturerIdx |-> 1, modelIdx |-> 2, typeAcftIdx |-> 3]

\* schema.mfrMdlCodeIdx == null ? '' : String(fields.get(...) || '').trim()
Detail(fields, idx) == IF idx = NullIdx THEN <<>> ELSE trim(MapGet(fields, idx))

\* ---------------------------------------------------------------------------
\* server.js: findAircraftInMasterCsv and findAircraftInAcftRef.  One call:
\* the stream delivers 'line' events, then 'close' or an error.
\* ---------------------------------------------------------------------------
NoError == "none"
Errors == {"ENOENT", "EIO"}

\* a done that reports every error as not-found
done_ErrorsAsNotFound(err, foundNow) ==
  IF settled
  THEN UNCHANGED <<settled, outcome, result>>
  ELSE /\ settled' = TRUE
       /\ outcome' = "resolved"
       /\ result' = IF err # NoError THEN NoRecord ELSE foundNow

\* a done without the `settled` guard
done_SettlesAgain(err, foundNow) ==
  /\ settled' = TRUE
  /\ IF err # NoError
     THEN IF err = "ENOENT"
       THEN outcome' = "resolved" /\ result' = NoRecord
       ELSE outcome' = "rejected" /\ result' = NoRecord
     ELSE outcome' = "resolved" /\ result' = foundNow

\* function done(err), called when `found` holds foundNow
done(err, foundNow) ==
  IF settled
  THEN UNCHANGED <<settled, outcome, result>>
  ELSE /\ settled' = TRUE
       /\ IF err # NoError
          THEN IF err = "ENOENT"
            THEN outcome' = "resolved" /\ result' = NoRecord
            ELSE outcome' = "rejected" /\ result' = NoRecord
          ELSE outcome' = "resolved" /\ result' = foundNow

\* the part of both functions before the stream is opened
Call(key) ==
  /\ lkState = "idle"
  /\ lkKey' = key
  /\ needle' = toUpperCase(trim(key))
  /\ IF toUpperCase(trim(key)) = <<>>
     THEN /\ lkState' = "closed"
          /\ outcome' = "resolved"
          /\ result' = NoRecord
     ELSE /\ lkState' = "reading"
          /\ UNCHANGED <<outcome, result>>
  /\ UNCHANGED <<settled, found, schema, sawFirstLine, foundLine, lineNo,
                 errored, firstRow, firstLine>>
  /\ UNCHANGED notLookup

findAircraftInMasterCsv(nNumber) ==
  /\ table' = "master"
  /\ Call(nNumber)

findAircraftInAcftRef(mfrMdlCode) ==
  /\ table' = "acftref"
  /\ Call(mfrMdlCode)

\* schema.wantedAll and schema.wantedDetails
MasterWanted(sch) ==
  [nNumberIdx |-> sch.nNumberIdx,
   yearIdx |-> sch.yearIdx,
   mfrMdlCodeIdx |-> sch.mfrMdlCodeIdx,
   kitManufacturerIdx |-> sch.kitManufacturerIdx,
   kitModelIdx |-> sch.kitModelIdx,
   wantedAll |->
     makeWantedCsvIndices({sch.nNumberIdx, sch.yearIdx, sch.mfrMdlCodeIdx,
                           sch.kitManufacturerIdx, sch.kitModelIdx}),
   wantedDetails |->
     makeWantedCsvIndices({sch.yearIdx, sch.mfrMdlCodeIdx,
                           sch.kitManufacturerIdx, sch.kitModelIdx})]

AcftRefWanted(sch) ==
  [codeIdx |-> sch.codeIdx,
   manufacturerIdx |-> sch.manufacturerIdx,
   modelIdx |-> sch.modelIdx,
   typeAcftIdx |-> sch.typeAcftIdx,
   wantedAll |->
     makeWantedCsvIndices({sch.codeIdx, sch.manufacturerIdx, sch.modelIdx,
                           sch.typeAcftIdx})]

\* the identifier the master line handler compares with the needle
MasterCandidate(sch, line) ==
  IF sch.nNumberIdx # 0
  THEN normalizeNNumberField(
         MapGet(parseCsvFieldsAt(line, sch.wantedAll), sch.nNumberIdx))
  ELSE normalizeNNumberField(readFirstCsvField(line))

\* the record the master line handler builds
MasterRecord(sch, line) ==
  LET fields == IF sch.nNumberIdx # 0
                THEN parseCsvFieldsAt(line, sch.wantedAll)
                ELSE parseCsvFieldsAt(line, sch.wantedDetails)
  IN [nNumber |-> needle,
      year |-> trim(MapGet(fields, sch.yearIdx)),
      mfrMdlCode |-> Detail(fields, sch.mfrMdlCodeIdx),
      kitManufacturer |-> Detail(fields, sch.kitManufacturerIdx),
      kitModel |-> Detail(fields, sch.kitModelIdx)]

AcftRefCandidate(sch, line) ==
  normalizeNNumberField(
    MapGet(parseCsvFieldsAt(line, sch.wantedAll), sch.codeIdx))

AcftRefRecord(sch, line) ==
  LET fields == parseCsvFieldsAt(line, sch.wantedAll)
  IN [mfrMdlCode |-> needle,
      manufacturer |-> Detail(fields, sch.manufacturerIdx),
      model |-> Detail(fields, sch.modelIdx),
      typeAcft |-> Detail(fields, sch.typeAcftIdx)]

\* the column of the identifier under schema sch, counted from 0
IdentifierIdxOf(sch) == IF table = "master" THEN sch.nNumberIdx ELSE sch.codeIdx

\* the identifier field of a row: that column of the fully tokenized line
IdentifierOf(line, idx) ==
  IF idx + 1 <= Len(parseCsvLine(line)) THEN parseCsvLine(line)[idx + 1] ELSE <<>>

\* the identifier of a row, BOM and quotes stripped, trimmed, upper-cased
RowIdentifier(line, idx) ==
  toUpperCase(trim(stripAllQuotes(stripLeadingBom(IdentifierOf(line, idx)))))

\* the key, trimmed and upper-cased
NormalizedKey == toUpperCase(trim(lkKey))

\* the line handler of the function that was called
Candidate(sch, line) ==
  IF table = "master" THEN MasterCandidate(sch, line)
  ELSE AcftRefCandidate(sch, line)

Record(sch, line) ==
  IF table = "master" THEN MasterRecord(sch, line)
  ELSE AcftRefRecord(sch, line)

\* the first line names the column: some field of it, after BOM strip, trim
\* and upper-casing, is that name
NamesColumn(line, name) ==
  \E i \in 1..Len(parseCsvLine(line)) :
    toUpperCase(trim(stripLeadingBom(parseCsvLine(line)[i]))) = <<name>>

\* the first line of the primary file is recognized as a header
RecognizedHeader(line) ==
  NamesColumn(line, "N-NUMBER") /\ NamesColumn(line, "YEAR MFR")

\* the first line of the secondary file is recognized as a header
RecognizedRefHeader(line) ==
  \/ NamesColumn(line, "MFR MDL CODE")
  \/ NamesColumn(line, "CODE")
  \/ NamesColumn(line, "MFRMDLCODE")

\* the column, counted from 0, of the first field of the line that names the
\* column; NullIdx when no field does
ColumnNamed(line, name) ==
  IF ~NamesColumn(line, name) THEN NullIdx
  ELSE (CHOOSE i \in 1..Len(parseCsvLine(line)) :
          /\ toUpperCase(trim(stripLeadingBom(parseCsvLine(line)[i]))) = <<name>>
          /\ \A j \in 1..(i - 1) :
               toUpperCase(trim(stripLeadingBom(parseCsvLine(line)[j]))) # <<name>>) - 1

\* the identifier of the line at the fixed position (column 0), as the scan
\* compares it with the needle
FixedCandidate(line) ==
  IF table = "master" THEN normalizeNNumberField(readFirstCsvField(line))
  ELSE normalizeNNumberField(
         MapGet(parseCsvFieldsAt(line, makeWantedCsvIndices({0, 1, 2, 3})), 0))

\* what the first non-empty line held, and whether the handler matched it
FirstLineFacts(line, matched) ==
  [recognized |-> IF table = "master" THEN RecognizedHeader(line)
                  ELSE RecognizedRefHeader(line),
   nNumberCol |-> ColumnNamed(line, "N-NUMBER"),
   yearCol |-> ColumnNamed(line, "YEAR MFR"),
   carriesKey |-> FixedCandidate(line) = needle,
   matched |-> matched]

\* rl.on('line', ...) of either function, before a match.  A match sets
\* `found`, and rl.close() emits 'close' at once, so done() runs inside the
\* handler.
OnLine(line, headerSchema, fallback) ==
  /\ lkState = "reading"
  /\ lineNo < MaxRows
  /\ lineNo' = lineNo + 1
  /\ IF line = <<>>
     THEN UNCHANGED <<lkState, settled, found, schema, sawFirstLine,
                      outcome, result, foundLine, firstRow, firstLine>>
     ELSE LET sch == IF sawFirstLine THEN schema
                     ELSE IF headerSchema # NoSchema THEN headerSchema
                     ELSE fallback
          IN /\ sawFirstLine' = TRUE
             /\ schema' = sch
             /\ firstLine' =
                  IF sawFirstLine THEN firstLine
                  ELSE FirstLineFacts(line,
                         headerSchema = NoSchema /\ Candidate(sch, line) = needle)
             /\ firstRow' =
                  IF /\ firstRow = <<>>
                     /\ ~(~sawFirstLine /\ headerSchema # NoSchema)
                     /\ RowIdentifier(line, IdentifierIdxOf(sch)) = NormalizedKey
                  THEN line
                  ELSE firstRow
             /\ IF (~sawFirstLine /\ headerSchema # NoSchema)
                   \/ Candidate(sch, line) # needle
                THEN UNCHANGED <<lkState, settled, found, outcome, result,
                                 foundLine>>
                ELSE /\ found' = Record(sch, line)
                     /\ foundLine' = line
                     /\ lkState' = "matched"
                     /\ done(NoError, Record(sch, line))
  /\ UNCHANGED <<table, lkKey, needle, errored>>
  /\ UNCHANGED notLookup

MasterOnLine(line) ==
  /\ table = "master"
  /\ OnLine(line,
         IF inferMasterCsvSchemaFromHeaderLine(line) = NoSchema THEN NoSchema
         ELSE MasterWanted(inferMasterCsvSchemaFromHeaderLine(line)),
         MasterWanted(MasterFallbackSchema))

AcftRefOnLine(line) ==
  /\ table = "acftref"
  /\ OnLine(line,
         IF inferAcftRefSchemaFromHeaderLine(line) = NoSchema THEN NoSchema
         ELSE AcftRefWanted(inferAcftRefSchemaFromHeaderLine(line)),
         AcftRefWanted(AcftRefFallbackSchema))

\* a line already split from the current chunk, delivered after the match:
\* `if (found) return`, whatever the line
OnLineFound ==
  /\ lkState = "matched"
  /\ lineNo < MaxRows
  /\ lineNo' = lineNo + 1
  /\ UNCHANGED <<table, lkKey, needle, lkState, settled, found, schema,
                 sawFirstLine, outcome, result, foundLine, errored, firstRow,
                 firstLine>>
  /\ UNCHANGED notLookup

\* rl.on('close', () => done())
OnClose ==
  /\ lkState \in {"reading", "errored"}
  /\ lkState' = "closed"
  /\ done(NoError, found)
  /\ UNCHANGED <<table, lkKey, needle, found, schema, sawFirstLine,
                 foundLine, lineNo, errored, firstRow, firstLine>>
  /\ UNCHANGED notLookup

\* rl.on('error', done); stream.on('error', done).  The open fails with
\* ENOENT before any line; a read fails at any point.
OnError(err) ==
  /\ lkState \in {"reading", "matched"}
  /\ err = "ENOENT" => lineNo = 0
  /\ lkState' = "errored"
  /\ errored' = err
  /\ done(err, found)
  /\ UNCHANGED <<table, lkKey, needle, found, schema, sawFirstLine,
                 foundLine, lineNo, firstRow, firstLine>>
  /\ UNCHANGED notLookup

InitLookup ==
  /\ LookupParked
  /\ ResolveParked
  /\ FetchParked
  /\ HandlerParked
  /\ ExtractParked
  /\ RestParked
  /\ RefreshParked
  /\ CronParked

NextLookup ==
  \/ \E nNumber \in Keys : findAircraftInMasterCsv(nNumber)
  \/ \E mfrMdlCode \in Keys : findAircraftInAcftRef(mfrMdlCode)
  \/ \E line \in Lines : MasterOnLine(line)
  \/ \E line \in Lines : AcftRefOnLine(line)
  \/ OnLineFound
  \/ OnClose
  \/ \E err \in Errors : OnError(err)

SpecLookup == InitLookup /\ [][NextLookup]_vars

\* the stream of a lookup ends: readline emits 'close' once the input has
\* ended, failed or been destroyed
SpecLookupLive == SpecLookup /\ WF_vars(OnClose)

\* the promise settles once: its outcome and value never change afterwards
SettlesOnce ==
  [][outcome # "pending" => (outcome' = outcome /\ result' = result)]_vars

\* a match is what the promise resolves with, whatever the stream emits later
MatchIsFinal ==
  (found # NoRecord /\ lkState # "reading") =>
    (outcome = "resolved" /\ result = found)

\* C35: every registry lookup settles exactly once under every ordering of
\* line, close and error events: it eventually resolves or rejects, later
\* events are ignored, and once a matching row has been found a later stream
\* event cannot turn the result into not-found or into a failure.
C35_SettlesExactlyOnce ==
  /\ SettlesOnce
  /\ []MatchIsFinal
  /\ (lkState # "idle") ~> (outcome # "pending")

\* a read error emitted after the match: the lookup stays resolved with the row
C35_Witness ==
  /\ found # NoRecord
  /\ errored = "EIO"
  /\ lkState = "errored"
  /\ settled
  /\ outcome = "resolved"
  /\ result = found

\* the column of the identifier under the schema in force, counted from 0
IdentifierIdx == IF table = "master" THEN schema.nNumberIdx ELSE schema.codeIdx

\* C10: whenever a lookup returns a record, the identifier field of the row
\* the record was built from, after stripping BOM and quotes, trimming and
\* upper-casing, equals the trimmed, upper-cased query key.
C10_RecordMatchesKey ==
  (outcome = "resolved" /\ result # NoRecord) =>
    toUpperCase(trim(stripAllQuotes(stripLeadingBom(
      IdentifierOf(foundLine, IdentifierIdx))))) = toUpperCase(trim(lkKey))

\* C11: a lookup whose file does not exist (ENOENT) settles as not-found and
\* never as a failure; any other stream or read error that occurs before a
\* match settles the lookup as a failure, never as not-found.
C11_ErrorsSettleLookup ==
  /\ errored = "ENOENT" => (outcome = "resolved" /\ result = NoRecord)
  /\ (errored \in Errors \ {"ENOENT"} /\ found = NoRecord) =>
       outcome = "rejected"

\* a read error after a line was scanned without a match
C11_Witness ==
  /\ errored = "EIO"
  /\ lineNo > 0
  /\ sawFirstLine
  /\ found = NoRecord
  /\ outcome = "rejected"

\* C12: for a key that matches no data row of the file, the lookup scans to
\* the end of the stream and settles as not-found; it never rejects because
\* the key is absent.
C12_AbsentKeyIsNotFound ==
  (outcome # "pending" /\ errored = "none" /\ firstRow = <<>>) =>
    (outcome = "resolved" /\ result = NoRecord)

\* a detail column of a row as the full tokenizer reads it, trimmed
ColumnOf(line, idx) ==
  IF idx = NullIdx THEN <<>> ELSE trim(IdentifierOf(line, idx))

\* the record of a row of the primary file under the schema in force
RowRecord(line) ==
  [nNumber |-> NormalizedKey,
   year |-> ColumnOf(line, schema.yearIdx),
   mfrMdlCode |-> ColumnOf(line, schema.mfrMdlCodeIdx),
   kitManufacturer |-> ColumnOf(line, schema.kitManufacturerIdx),
   kitModel |-> ColumnOf(line, schema.kitModelIdx)]

\* the lookup has settled and the stream emitted no error
SettledWithoutError == outcome # "pending" /\ errored = "none"

\* C13: for an identifier present in a data row of the primary file, a
\* lookup with that identifier in any letter case, with surrounding white
\* space or with a leading BOM returns the record of that row, with nNumber
\* equal to the normalized key.
C13_PresentKeyIsFound ==
  (table = "master" /\ SettledWithoutError /\ firstRow # <<>>) =>
    (outcome = "resolved" /\ result = RowRecord(firstRow))

\* C14: if several data rows carry the queried identifier the lookup returns
\* the fields of the earliest such row; on that first match the reader is
\* closed and the stream destroyed, and line events delivered after the
\* match never change the result.
C14_FirstMatchWins ==
  /\ found # NoRecord =>
       /\ lkState # "reading"
       /\ settled
       /\ outcome = "resolved"
       /\ result = found
  /\ (table = "master" /\ result # NoRecord /\ firstRow # <<>>) =>
       result = RowRecord(firstRow)

\* ---------------------------------------------------------------------------
\* server.js: resolveAircraftSpecsByNNumber.  The two lookups it awaits are
\* taken by the values their promises settle with.
\* ---------------------------------------------------------------------------
\* null, where a string may stand
Null == <<"null">>

\* the trimmed strings a lookup puts in a record
Names == {<<>>, <<"a">>, <<"b">>}
Years == {<<>>, <<"1">>}
Codes == {<<>>, <<"c">>}
TypeCodes == {<<>>, <<"4">>}

\* the records findAircraftInMasterCsv resolves with
MasterResults ==
  [nNumber : {<<"N">>}, year : Years, mfrMdlCode : Codes,
   kitManufacturer : Names, kitModel : Names]

\* the records findAircraftInAcftRef(code) resolves with
RefResults(code) ==
  [mfrMdlCode : {toUpperCase(trim(code))}, manufacturer : Names,
   model : Names, typeAcft : TypeCodes]

\* a filter that keeps the empty strings
filterBoolean_KeepsEmpty(parts) == parts

\* [..].filter(Boolean)
filterBoolean(parts) == SelectSeq(parts, LAMBDA part : part # <<>>)

\* Array.prototype.join
RECURSIVE join(_, _)
join(parts, sep) ==
  IF parts = <<>> THEN <<>>
  ELSE IF Len(parts) = 1 THEN parts[1]
  ELSE parts[1] \o sep \o join(Tail(parts), sep)

\* value || null
OrNull(value) == IF value = <<>> THEN Null ELSE value

\* const hasCode
HasCode(a) == trim(a.mfrMdlCode) # <<>>

UseKitFields_Always(manufacturer, model) == TRUE

UseKitFields_Never(manufacturer, model) == FALSE

\* if (!manufacturer && !model)
UseKitFields(manufacturer, model) == manufacturer = <<>> /\ model = <<>>

\* a resolver that falls back to the kit fields one field at a time
Resolved_PerField(a, r) ==
  LET refManufacturer == IF r # NoRecord THEN trim(r.manufacturer) ELSE <<>>
      refModel == IF r # NoRecord THEN trim(r.model) ELSE <<>>
      typeAcft == IF r # NoRecord THEN trim(r.typeAcft) ELSE <<>>
      manufacturer == IF refManufacturer = <<>>
                      THEN trim(a.kitManufacturer) ELSE refManufacturer
      model == IF refModel = <<>>
               THEN trim(a.kitModel) ELSE refModel
      aircraftType == join(filterBoolean(<<manufacturer, model>>), <<SPACE>>)
  IN [nNumber |-> a.nNumber,
      year |-> a.year,
      mfrMdlCode |-> a.mfrMdlCode,
      kitManufacturer |-> a.kitManufacturer,
      kitModel |-> a.kitModel,
      manufacturer |-> manufacturer,
      model |-> model,
      aircraftType |-> OrNull(aircraftType),
      typeAcft |-> OrNull(typeAcft)]

\* the object the function returns for aircraft a and reference row r
Resolved(a, r) ==
  LET refManufacturer == IF r # NoRecord THEN trim(r.manufacturer) ELSE <<>>
      refModel == IF r # NoRecord THEN trim(r.model) ELSE <<>>
      typeAcft == IF r # NoRecord THEN trim(r.typeAcft) ELSE <<>>
      manufacturer == IF UseKitFields(refManufacturer, refModel)
                      THEN trim(a.kitManufacturer) ELSE refManufacturer
      model == IF UseKitFields(refManufacturer, refModel)
               THEN trim(a.kitModel) ELSE refModel
      aircraftType == join(filterBoolean(<<manufacturer, model>>), <<SPACE>>)
  IN [nNumber |-> a.nNumber,
      year |-> a.year,
      mfrMdlCode |-> a.mfrMdlCode,
      kitManufacturer |-> a.kitManufacturer,
      kitModel |-> a.kitModel,
      manufacturer |-> manufacturer,
      model |-> model,
      aircraftType |-> OrNull(aircraftType),
      typeAcft |-> OrNull(typeAcft)]

\* the call, up to `await findAircraftInMasterCsv`
resolveAircraftSpecsByNNumber ==
  /\ rpc = "idle"
  /\ rpc' = "awaitMaster"
  /\ UNCHANGED <<aircraft, ref, specs, refCalled>>
  /\ UNCHANGED notResolve

\* findAircraftInMasterCsv resolves with a: the function runs on to its return
\* or to `await findAircraftInAcftRef`
MasterLookupSettles(a) ==
  /\ rpc = "awaitMaster"
  /\ aircraft' = a
  /\ IF a = NoRecord
     THEN /\ specs' = NoRecord
          /\ rpc' = "done"
          /\ UNCHANGED refCalled
     ELSE IF HasCode(a)
       THEN /\ rpc' = "awaitRef"
            /\ refCalled' = TRUE
            /\ UNCHANGED specs
       ELSE /\ specs' = Resolved(a, NoRecord)
            /\ rpc' = "done"
            /\ UNCHANGED refCalled
  /\ UNCHANGED ref
  /\ UNCHANGED notResolve

\* findAircraftInAcftRef resolves with r
RefLookupSettles(r) ==
  /\ rpc = "awaitRef"
  /\ ref' = r
  /\ specs' = Resolved(aircraft, r)
  /\ rpc' = "done"
  /\ UNCHANGED <<aircraft, refCalled>>
  /\ UNCHANGED notResolve

\* either lookup rejects: the rejection is the caller's
LookupRejects ==
  /\ rpc \in {"awaitMaster", "awaitRef"}
  /\ rpc' = "failed"
  /\ UNCHANGED <<aircraft, ref, specs, refCalled>>
  /\ UNCHANGED notResolve

\* what findAircraftInAcftRef(aircraft.mfrMdlCode) may resolve with
RefOutcomes ==
  IF rpc = "awaitRef"
  THEN RefResults(aircraft.mfrMdlCode) \cup {NoRecord}
  ELSE {}

InitResolve ==
  /\ ResolveParked
  /\ FetchParked
  /\ HandlerParked
  /\ ExtractParked
  /\ RestParked
  /\ LookupParked
  /\ RefreshParked
  /\ CronParked

NextResolve ==
  \/ resolveAircraftSpecsByNNumber
  \/ \E a \in MasterResults \cup {NoRecord} : MasterLookupSettles(a)
  \/ \E r \in RefOutcomes : RefLookupSettles(r)
  \/ LookupRejects

SpecResolve == InitResolve /\ [][NextResolve]_vars

\* C15: when the primary record carries a non-empty join-key code and the
\* reference file has a row for it with a manufacturer or a model, the
\* resolved manufacturer and model are the reference row's, not the record's
\* kit fields, even if the kit fields are non-empty too.
C15_ReferenceRowWins ==
  (/\ rpc = "done"
   /\ aircraft # NoRecord
   /\ ref # NoRecord) =>
    ((aircraft.mfrMdlCode # <<>> /\ (ref.manufacturer # <<>> \/ ref.model # <<>>)) =>
      /\ specs.manufacturer = ref.manufacturer
      /\ specs.model = ref.model)

C15_Witness ==
  /\ rpc = "done"
  /\ aircraft # NoRecord
  /\ ref # NoRecord
  /\ specs # NoRecord
  /\ aircraft.kitManufacturer = <<"a">>
  /\ aircraft.kitModel = <<"a">>
  /\ ref.manufacturer = <<"b">>
  /\ ref.model = <<>>
  /\ specs.manufacturer = <<"b">>
  /\ specs.model = <<>>

\* the reference lookup gave a manufacturer or a model
RefGaveName == ref # NoRecord /\ (trim(ref.manufacturer) # <<>> \/ trim(ref.model) # <<>>)

\* C36: in every resolved aircraft the manufacturer and the model come from
\* the same source: both from the reference row, or both from the primary
\* record's inline kit fields; the kit fields are used only when the
\* reference lookup gave neither a manufacturer nor a model.
C36_OneSourceForBoth ==
  (rpc = "done" /\ specs # NoRecord) =>
    IF RefGaveName
    THEN /\ specs.manufacturer = trim(ref.manufacturer)
         /\ specs.model = trim(ref.model)
    ELSE /\ specs.manufacturer = trim(aircraft.kitManufacturer)
         /\ specs.model = trim(aircraft.kitModel)

\* the reference row has a manufacturer and no model, the record a kit model:
\* the model stays empty
C36_Witness ==
  /\ rpc = "done"
  /\ specs # NoRecord
  /\ ref # NoRecord
  /\ ref.manufacturer = <<"b">>
  /\ ref.model = <<>>
  /\ aircraft.kitManufacturer = <<>>
  /\ aircraft.kitModel = <<"a">>
  /\ specs.manufacturer = <<"b">>
  /\ specs.model = <<>>

\* C16: when the primary record has no join-key code, or its code has no row
\* in the reference file, or the reference file does not exist (both make
\* findAircraftInAcftRef resolve null), the resolver still returns the record,
\* with manufacturer and model taken from the record's kit fields; when the
\* primary lookup finds nothing the resolver returns not-found without
\* scanning the reference file.
C16_FallsBackToKitFields ==
  rpc = "done" =>
    IF aircraft = NoRecord
    THEN specs = NoRecord /\ ~refCalled
    ELSE ref = NoRecord =>
           /\ specs # NoRecord
           /\ specs.nNumber = aircraft.nNumber
           /\ specs.year = aircraft.year
           /\ specs.manufacturer = aircraft.kitManufacturer
           /\ specs.model = aircraft.kitModel
           /\ (aircraft.mfrMdlCode = <<>> => ~refCalled)

\* a record with a join-key code that the reference lookup does not find
C16_Witness ==
  /\ rpc = "done"
  /\ aircraft # NoRecord
  /\ refCalled
  /\ ref = NoRecord
  /\ specs # NoRecord
  /\ aircraft.kitManufacturer = <<"a">>
  /\ aircraft.kitModel = <<"b">>
  /\ specs.manufacturer = <<"a">>
  /\ specs.model = <<"b">>

\* C17: the composed type string is the manufacturer and the model joined by
\* one space when both are non-empty, the non-empty one alone when exactly
\* one is empty, and null when both are empty.
C17_TypeStringComposed ==
  (rpc = "done" /\ specs # NoRecord) =>
    specs.aircraftType =
      IF specs.manufacturer # <<>> /\ specs.model # <<>>
      THEN specs.manufacturer \o <<SPACE>> \o specs.model
      ELSE IF specs.manufacturer # <<>> THEN specs.manufacturer
      ELSE IF specs.model # <<>> THEN specs.model
      ELSE Null

\* a resolved aircraft whose manufacturer and model come from the reference
\* row and are joined
C17_Witness ==
  /\ rpc = "done"
  /\ specs # NoRecord
  /\ ref # NoRecord
  /\ specs.manufacturer = <<"a">>
  /\ specs.model = <<"b">>
  /\ specs.aircraftType = <<"a", SPACE, "b">>

\* ---------------------------------------------------------------------------
\* server.js: extractRegistrationFromFlightResponse.  A response body is an
\* array or an object with the same keys; an element may lack `aircraft`,
\* and a missing `reg` or `registration` is the empty string (both are
\* falsy).
\* ---------------------------------------------------------------------------
Registrations == {<<"N", "1">>, <<"N", "2">>}

Elements ==
  [hasAircraft : {TRUE}, reg : Registrations \cup {<<>>},
   registration : Registrations \cup {<<>>}]
  \cup {[hasAircraft |-> FALSE, reg |-> <<>>, registration |-> <<>>]}

Responses ==
  [isArray : BOOLEAN, items : UNION {[1..n -> Elements] : n \in 0..MaxItems}]

\* the last element instead of data[0]
LastItem(items) == items[Len(items)]

\* data[0]
FirstItem(items) == items[1]

extractRegistrationFromFlightResponse(d) ==
  IF ~d.isArray \/ Len(d.items) = 0 THEN Null
  ELSE IF FirstItem(d.items).hasAircraft /\ FirstItem(d.items).reg # <<>>
    THEN FirstItem(d.items).reg
    ELSE IF FirstItem(d.items).hasAircraft
            /\ FirstItem(d.items).registration # <<>>
      THEN FirstItem(d.items).registration
      ELSE Null

\* one call of the function
Extract ==
  /\ extracted = NotExtracted
  /\ extracted' = extractRegistrationFromFlightResponse(data)
  /\ UNCHANGED data
  /\ UNCHANGED notExtract

InitExtract ==
  /\ data \in Responses
  /\ extracted = NotExtracted
  /\ RestParked
  /\ HandlerParked
  /\ FetchParked
  /\ ResolveParked
  /\ LookupParked
  /\ RefreshParked
  /\ CronParked

NextExtract == Extract

SpecExtract == InitExtract /\ [][NextExtract]_vars

\* C20: for an array-shaped response the registration is taken from the
\* first element only: the first element's registration, or none when the
\* first element has none, whatever later elements hold; an empty or
\* non-array response yields no registration.
C20_FirstElementOnly ==
  extracted # NotExtracted =>
    IF ~data.isArray \/ data.items = <<>>
    THEN extracted = Null
    ELSE IF \/ ~data.items[1].hasAircraft
            \/ (data.items[1].reg = <<>> /\ data.items[1].registration = <<>>)
      THEN extracted = Null
      ELSE extracted \in
             {data.items[1].reg, data.items[1].registration} \ {<<>>}

\* a codeshare response: two elements with different registrations
C20_Witness ==
  /\ data.isArray
  /\ Len(data.items) = 2
  /\ data.items[1].reg = <<"N", "1">>
  /\ data.items[2].reg = <<"N", "2">>
  /\ extracted = <<"N", "1">>

\* ---------------------------------------------------------------------------
\* server.js: fetchTailNumber.  The remote end answers (headers, then body)
\* when it likes or never; timeoutMs passes at some point of the call.
\* ---------------------------------------------------------------------------
FetchPending == fpc \in {"awaitFetch", "awaitJson"}

\* the function up to `await fetchImpl(...)`
StartFetch(apiKey, hasFetchImpl) ==
  /\ aborted' = FALSE
  /\ elapsed' = FALSE
  /\ IF ~apiKey \/ ~hasFetchImpl
     THEN /\ fpc' = "returned"
          /\ tailResult' = FailedTail
          /\ UNCHANGED <<timerArmed, fetchCalls, tailData>>
     ELSE /\ fpc' = "awaitFetch"
          /\ timerArmed' = TRUE
          /\ fetchCalls' = fetchCalls + 1
          /\ UNCHANGED <<tailResult, tailData>>

\* a direct call, as the tests make it
fetchTailNumber(apiKey, hasFetchImpl) ==
  /\ fpc = "idle"
  /\ hpc = "idle"
  /\ StartFetch(apiKey, hasFetchImpl)
  /\ UNCHANGED <<resolveVars, handlerVars>>
  /\ UNCHANGED notRequest

\* fetchImpl resolves with the response headers: `finally` clears the timer
FetchResolves(ok) ==
  /\ fpc = "awaitFetch"
  /\ ~aborted
  /\ timerArmed' = FALSE
  /\ IF ok
     THEN fpc' = "awaitJson" /\ UNCHANGED tailResult
     ELSE fpc' = "returned" /\ tailResult' = FailedTail
  /\ UNCHANGED <<aborted, elapsed, fetchCalls, tailData>>
  /\ UNCHANGED <<resolveVars, handlerVars>>
  /\ UNCHANGED notRequest

\* fetchImpl rejects: a network error, or the abort
FetchRejects ==
  /\ fpc = "awaitFetch"
  /\ timerArmed' = FALSE
  /\ fpc' = "returned"
  /\ tailResult' = FailedTail
  /\ UNCHANGED <<aborted, elapsed, fetchCalls, tailData>>
  /\ UNCHANGED <<resolveVars, handlerVars>>
  /\ UNCHANGED notRequest

\* timeoutMs passes; a timer still pending runs controller.abort()
TimeoutElapses ==
  /\ FetchPending
  /\ ~elapsed
  /\ elapsed' = TRUE
  /\ aborted' = timerArmed
  /\ timerArmed' = FALSE
  /\ UNCHANGED <<fpc, tailResult, fetchCalls, tailData>>
  /\ UNCHANGED <<resolveVars, handlerVars>>
  /\ UNCHANGED notRequest

JsonResolves_NoRegistrationIsFailure(d) ==
  /\ fpc = "awaitJson"
  /\ fpc' = "returned"
  /\ tailResult' =
       [ok |-> extractRegistrationFromFlightResponse(d) # Null,
        registration |-> extractRegistrationFromFlightResponse(d)]
  /\ tailData' = d
  /\ UNCHANGED <<timerArmed, aborted, elapsed, fetchCalls>>
  /\ UNCHANGED <<resolveVars, handlerVars>>
  /\ UNCHANGED notRequest

\* response.json() resolves with the parsed body d
JsonResolves(d) ==
  /\ fpc = "awaitJson"
  /\ fpc' = "returned"
  /\ tailResult' =
       [ok |-> TRUE, registration |-> extractRegistrationFromFlightResponse(d)]
  /\ tailData' = d
  /\ UNCHANGED <<timerArmed, aborted, elapsed, fetchCalls>>
  /\ UNCHANGED <<resolveVars, handlerVars>>
  /\ UNCHANGED notRequest

\* response.json() rejects: the body is no JSON, or the read failed
JsonRejects ==
  /\ fpc = "awaitJson"
  /\ fpc' = "returned"
  /\ tailResult' = FailedTail
  /\ UNCHANGED <<timerArmed, aborted, elapsed, fetchCalls, tailData>>
  /\ UNCHANGED <<resolveVars, handlerVars>>
  /\ UNCHANGED notRequest

\* ---------------------------------------------------------------------------
\* server.js: POST /check-flight
\* ---------------------------------------------------------------------------
\* the characters of [0-9A-Za-z]
AlphaNumeric == {"N", "n", "T", "t", "D", "L", "1", "2", "4", "7"}

\* the strings /^\d{4}-\d{2}-\d{2}$/ matches, each as one symbol
IsoDates == {"2025-01-01", "2025-01-02"}

FlightNumbers ==
  { <<"T", "T", "1", "1", "1">>,
    <<"t", "t", SPACE, "1", "1", "1">>,
    <<"D", "L", "4", "7">>,
    <<"D">>,
    <<"D", "L", "-", "4", "7">> }

Requests == [flightNumber : FlightNumbers, date : IsoDates \cup {"01/02/2025"}]

\* validateCheckFlight leaves no error
Valid(r) ==
  /\ Len(trim(r.flightNumber)) >= 2
  /\ Len(trim(r.flightNumber)) <= 10
  /\ \A i \in 1..Len(trim(r.flightNumber)) :
       trim(r.flightNumber)[i] \in AlphaNumeric \cup {SPACE}
  /\ r.date \in IsoDates

\* .replace(/\s+/g, '').toUpperCase()
normalizeFlightNumber(value) ==
  toUpperCase(SelectSeq(value, LAMBDA ch : ch \notin WhiteSpace))

normalizeDate(value) == IF value \in IsoDates THEN value ELSE "null"

\* trim, drop what is not [0-9a-z], drop one leading N, upper-case
normalizeNNumberFromRegistration(registration) ==
  LET cleaned == SelectSeq(trim(registration), LAMBDA ch : ch \in AlphaNumeric)
  IN toUpperCase(IF cleaned # <<>> /\ cleaned[1] \in {"N", "n"}
                 THEN Tail(cleaned) ELSE cleaned)

\* the bypass without the date test
getPublicBypassResult_AnyDate(flightNumber, date) ==
  IF flightNumber # <<"T", "T", "1", "1", "1">> THEN NoResponse
  ELSE [registration |-> "TT-111", nNumber |-> "null", year |-> "2015",
        manufacturer |-> "Incom Corporation",
        model |-> "T-65B X-wing Starfighter", age |-> 10]

getPublicBypassResult(flightNumber, date) ==
  IF flightNumber # <<"T", "T", "1", "1", "1">> THEN NoResponse
  ELSE IF date # "2025-01-01" THEN NoResponse
  ELSE [registration |-> "TT-111", nNumber |-> "null", year |-> "2015",
        manufacturer |-> "Incom Corporation",
        model |-> "T-65B X-wing Starfighter", age |-> 10]

MSG_INVALID_INPUT == "Invalid input."
MSG_SERVER_ERROR == "Server error."
MSG_NOT_CONFIGURED == "Server not configured."
MSG_UNAVAILABLE == "Flight details currently unavailable."
MSG_NOT_PUBLISHED == "Airline hasn't published an assigned aircraft yet."
MSG_NOT_IN_REGISTRY == "Aircraft specs not in local registry."

\* res.status(status).json({ok: false, message})
Refusal(status, message) == [status |-> status, ok |-> FALSE, message |-> message]

\* new Date().getFullYear()
NowYear == 2026

\* Number(aircraft.year) for the years of the model
YearNumber(year) == IF year = <<"1">> THEN 1 ELSE 0

\* the request arrives: the handler runs to its first await or to its answer
CheckFlight(r) ==
  /\ hpc = "idle"
  /\ fpc = "idle"
  /\ rpc = "idle"
  /\ req' = r
  /\ IF \/ ~Valid(r)
        \/ normalizeFlightNumber(r.flightNumber) = <<>>
        \/ normalizeDate(r.date) = "null"
     THEN /\ response' = Refusal(400, MSG_INVALID_INPUT)
          /\ hpc' = "responded"
          /\ UNCHANGED fetchVars
     ELSE IF getPublicBypassResult(normalizeFlightNumber(r.flightNumber),
                                   normalizeDate(r.date)) # NoResponse
       THEN /\ response' =
                 [status |-> 200, ok |-> TRUE,
                  flightNumber |-> normalizeFlightNumber(r.flightNumber),
                  date |-> normalizeDate(r.date),
                  bypass |-> getPublicBypassResult(
                               normalizeFlightNumber(r.flightNumber),
                               normalizeDate(r.date))]
            /\ hpc' = "responded"
            /\ UNCHANGED fetchVars
       ELSE IF ~rapidApiKey
         THEN /\ response' = Refusal(500, MSG_NOT_CONFIGURED)
              /\ hpc' = "responded"
              /\ UNCHANGED fetchVars
         ELSE /\ hpc' = "awaitTail"
              /\ StartFetch(TRUE, TRUE)
              /\ UNCHANGED response
  /\ UNCHANGED <<rapidApiKey, resolveVars>>
  /\ UNCHANGED notRequest

\* fetchTailNumber returned: the handler answers, or calls
\* resolveAircraftSpecsByNNumber and awaits it
TailReturned ==
  /\ hpc = "awaitTail"
  /\ fpc = "returned"
  /\ IF ~tailResult.ok
     THEN /\ response' = Refusal(200, MSG_UNAVAILABLE)
          /\ hpc' = "responded"
          /\ UNCHANGED rpc
     ELSE IF tailResult.registration = Null
       THEN /\ response' = Refusal(200, MSG_NOT_PUBLISHED)
            /\ hpc' = "responded"
            /\ UNCHANGED rpc
       ELSE /\ hpc' = "awaitSpecs"
            /\ rpc' = "awaitMaster"
            /\ UNCHANGED response
  /\ UNCHANGED <<rapidApiKey, req, aircraft, ref, specs, refCalled, fetchVars>>
  /\ UNCHANGED notRequest

\* resolveAircraftSpecsByNNumber returned or threw
SpecsReturned ==
  /\ hpc = "awaitSpecs"
  /\ rpc \in {"done", "failed"}
  /\ hpc' = "responded"
  /\ response' =
       IF rpc = "failed" THEN Refusal(500, MSG_SERVER_ERROR)
       ELSE IF specs = NoRecord THEN Refusal(200, MSG_NOT_IN_REGISTRY)
       ELSE IF specs.year = <<>> THEN Refusal(200, MSG_NOT_IN_REGISTRY)
       ELSE [status |-> 200, ok |-> TRUE,
             flightNumber |-> normalizeFlightNumber(req.flightNumber),
             date |-> normalizeDate(req.date),
             registration |-> tailResult.registration,
             nNumber |-> normalizeNNumberFromRegistration(tailResult.registration),
             year |-> specs.year,
             manufacturer |-> specs.manufacturer,
             model |-> specs.model,
             aircraftType |-> specs.aircraftType,
             age |-> IF NowYear - YearNumber(specs.year) > 0
                     THEN NowYear - YearNumber(specs.year) ELSE 0]
  /\ UNCHANGED <<rapidApiKey, req, resolveVars, fetchVars>>
  /\ UNCHANGED notRequest

InitRequest ==
  /\ rapidApiKey \in BOOLEAN
  /\ hpc = "idle"
  /\ req = NoRequest
  /\ response = NoResponse
  /\ FetchParked
  /\ ResolveParked
  /\ ExtractParked
  /\ RestParked
  /\ LookupParked
  /\ RefreshParked
  /\ CronParked

NextRequest ==
  \/ \E r \in Requests : CheckFlight(r)
  \/ \E apiKey \in BOOLEAN, hasFetchImpl \in BOOLEAN :
       fetchTailNumber(apiKey, hasFetchImpl)
  \/ \E ok \in BOOLEAN : FetchResolves(ok)
  \/ FetchRejects
  \/ TimeoutElapses
  \/ \E d \in Responses : JsonResolves(d)
  \/ JsonRejects
  \/ TailReturned
  \/ \E a \in MasterResults \cup {NoRecord} : MasterLookupSettles(a)
  \/ \E r \in RefOutcomes : RefLookupSettles(r)
  \/ LookupRejects
  \/ SpecsReturned

SpecRequest == InitRequest /\ [][NextRequest]_vars

\* C18: fetchTailNumber reports one of three outcomes: the call failed
\* (ok false, registration null), the call succeeded and the body carries no
\* registration (ok true, registration null), the call succeeded with a
\* registration. The handler answers the first with 'Flight details currently
\* unavailable.', the second with another message, and calls the registry
\* resolver only after the third.
C18_ThreeRemoteOutcomes ==
  /\ fpc = "returned" =>
       /\ ~tailResult.ok => tailResult.registration = Null
       /\ tailData # Unread =>
            /\ tailResult.ok
            /\ tailResult.registration =
                 extractRegistrationFromFlightResponse(tailData)
  /\ (hpc = "responded" /\ fpc = "returned" /\ ~tailResult.ok) =>
       response = Refusal(200, MSG_UNAVAILABLE)
  /\ (hpc = "responded" /\ fpc = "returned" /\ tailResult.ok
        /\ tailResult.registration = Null) =>
       /\ response = Refusal(200, MSG_NOT_PUBLISHED)
       /\ response.message # MSG_UNAVAILABLE
  /\ (hpc # "idle" /\ rpc # "idle") =>
       /\ fpc = "returned"
       /\ tailResult.ok
       /\ tailResult.registration # Null

C18_Witness ==
  /\ hpc = "responded"
  /\ fpc = "returned"
  /\ tailData # Unread
  /\ tailResult = [ok |-> TRUE, registration |-> Null]
  /\ response = Refusal(200, MSG_NOT_PUBLISHED)
  /\ rpc = "idle"

\* C19: once timeoutMs has passed with the call still incomplete (headers or
\* body outstanding) the call has been aborted, and a call that returns after
\* the timeout returns the failure, which the handler answers with
\* 'Flight details currently unavailable.'.
C19_TimeoutAbortsCall ==
  /\ (elapsed /\ FetchPending) => aborted
  /\ (elapsed /\ fpc = "returned") => ~tailResult.ok
  /\ (elapsed /\ hpc = "responded") => response = Refusal(200, MSG_UNAVAILABLE)

\* C21: a valid request for flight TT111 (any letter case, spaces ignored)
\* on 2025-01-01 is answered with the fixed demo aircraft, age 10, with no
\* call of the remote API and no registry scan, with or without an API key;
\* no other flight/date pair is answered with the demo aircraft.
C21_DemoBypass ==
  (hpc = "responded" /\ Valid(req)) =>
    LET f == SelectSeq(req.flightNumber, LAMBDA ch : ch # SPACE)
        isDemo == /\ Len(f) = 5
                  /\ f[1] \in {"T", "t"}
                  /\ f[2] \in {"T", "t"}
                  /\ f[3] = "1" /\ f[4] = "1" /\ f[5] = "1"
                  /\ req.date = "2025-01-01"
    IN IF isDemo
       THEN /\ response.status = 200
            /\ response.ok
            /\ response.flightNumber = <<"T", "T", "1", "1", "1">>
            /\ response.date = "2025-01-01"
            /\ "bypass" \in DOMAIN response
            /\ response.bypass.registration = "TT-111"
            /\ response.bypass.year = "2015"
            /\ response.bypass.age = 10
            /\ fetchCalls = 0
            /\ fpc = "idle"
            /\ rpc = "idle"
       ELSE "bypass" \notin DOMAIN response

\* the demo request in lower case with a space, no API key configured
C21_Witness ==
  /\ hpc = "responded"
  /\ ~rapidApiKey
  /\ req = [flightNumber |-> <<"t", "t", SPACE, "1", "1", "1">>,
            date |-> "2025-01-01"]
  /\ response.ok
  /\ response.bypass.age = 10
  /\ fetchCalls = 0

\* ---------------------------------------------------------------------------
\* scripts/refresh-faa.js: downloadToFile.  The variant of lines 41-86 counts
\* the redirects it may still follow; the variant of lines 186-217 does not.
\* A redirect makes the function call itself, and the outer promise is
\* resolved with the inner one.
\* ---------------------------------------------------------------------------
MaxFollowed == 7

DownloadVariants == {"counted", "uncounted"}

notDownload == <<coreVars, concurrentVars, cacheVars, firstFieldVars>>

\* DOWNLOAD_TIMEOUT_MS, in units of the clock
DownloadTimeout == 2
\* the clock stops here
MaxElapsed == 4

\* the socket is active: its idle timer starts again
Activity == sinceActivity' = 0 /\ UNCHANGED sinceStart
\* no time passes and the socket is not active
KeepClock == UNCHANGED <<sinceStart, sinceActivity>>

\* reject(err): a promise settles once
Reject(err) ==
  IF dpc \in {"requesting", "piping"}
  THEN dpc' = "rejected" /\ dlError' = err
  ELSE UNCHANGED <<dpc, dlError>>

\* main: await downloadToFile(FAA_ZIP_URL, zipPath)
downloadToFile(variant, maxConfigured) ==
  /\ dpc = "idle"
  /\ dlVariant' = variant
  /\ maxRedirects' = maxConfigured
  /\ redirectsLeft' = maxConfigured
  /\ dpc' = "requesting"
  /\ UNCHANGED <<redirectsSeen, followed, pipeOpen, destExists, dlError>>
  /\ sinceStart' = 0
  /\ sinceActivity' = 0
  /\ UNCHANGED notDownload

\* the redirect of the counted variant follows whatever the count is
RedirectAllowed_Always == TRUE

\* if (redirectsLeft <= 0) return reject(...)
RedirectAllowed == dlVariant = "uncounted" \/ redirectsLeft > 0

\* the response callback with isRedirect: status 3xx and a location header
OnRedirect ==
  /\ dpc = "requesting"
  /\ followed < MaxFollowed
  /\ redirectsSeen' = redirectsSeen + 1
  /\ IF RedirectAllowed
     THEN /\ followed' = followed + 1
          /\ redirectsLeft' =
               IF dlVariant = "counted" THEN redirectsLeft - 1 ELSE redirectsLeft
          /\ UNCHANGED <<dpc, dlError>>
     ELSE /\ Reject("too many redirects")
          /\ UNCHANGED <<followed, redirectsLeft>>
  /\ UNCHANGED <<dlVariant, maxRedirects, pipeOpen, destExists>>
  /\ Activity
  /\ UNCHANGED notDownload

\* the response callback with a status that is neither a redirect nor 200
OnErrorStatus ==
  /\ dpc = "requesting"
  /\ Reject("http status")
  /\ UNCHANGED <<dlVariant, maxRedirects, redirectsLeft, redirectsSeen,
                 followed, pipeOpen, destExists>>
  /\ Activity
  /\ UNCHANGED notDownload

\* the response callback with status 200: fs.createWriteStream(destPath) and
\* the pipe
OnOk ==
  /\ dpc = "requesting"
  /\ dpc' = "piping"
  /\ pipeOpen' = TRUE
  /\ destExists' = TRUE
  /\ UNCHANGED <<dlVariant, maxRedirects, redirectsLeft, redirectsSeen,
                 followed, dlError>>
  /\ Activity
  /\ UNCHANGED notDownload

\* pipeline(...).then(resolve) / fileStream 'finish'
PipelineResolves ==
  /\ pipeOpen
  /\ pipeOpen' = FALSE
  /\ dpc' = IF dpc = "piping" THEN "resolved" ELSE dpc
  /\ UNCHANGED <<dlVariant, maxRedirects, redirectsLeft, redirectsSeen,
                 followed, destExists, dlError>>
  /\ Activity
  /\ UNCHANGED notDownload

\* pipeline(...).catch: rm destPath, reject / fileStream 'error': unlink, reject
PipelineRejects ==
  /\ pipeOpen
  /\ pipeOpen' = FALSE
  /\ destExists' = FALSE
  /\ Reject("pipe")
  /\ UNCHANGED <<dlVariant, maxRedirects, redirectsLeft, redirectsSeen, followed>>
  /\ KeepClock
  /\ UNCHANGED notDownload

\* request.on('error', reject)
RequestError ==
  /\ dpc \in {"requesting", "piping"}
  /\ Reject("request")
  /\ UNCHANGED <<dlVariant, maxRedirects, redirectsLeft, redirectsSeen,
                 followed, pipeOpen, destExists>>
  /\ KeepClock
  /\ UNCHANGED notDownload

\* time passes while the attempt is pending.  request.setTimeout and
\* response.setTimeout of the counted variant arm the idle timer of the
\* socket: it fires when the socket has been inactive for DOWNLOAD_TIMEOUT_MS
DownloadTick ==
  /\ dpc \in {"requesting", "piping"}
  /\ sinceStart < MaxElapsed
  /\ dlVariant = "counted" => sinceActivity < DownloadTimeout
  /\ sinceStart' = sinceStart + 1
  /\ sinceActivity' = sinceActivity + 1
  /\ UNCHANGED <<dlVariant, maxRedirects, dpc, redirectsLeft, redirectsSeen,
                 followed, pipeOpen, destExists, dlError>>
  /\ UNCHANGED notDownload

\* a chunk of the body arrives
DataArrives ==
  /\ dpc = "piping"
  /\ pipeOpen
  /\ sinceActivity > 0
  /\ Activity
  /\ UNCHANGED <<dlVariant, maxRedirects, dpc, redirectsLeft, redirectsSeen,
                 followed, pipeOpen, destExists, dlError>>
  /\ UNCHANGED notDownload

\* the idle timer fires: request.destroy(err) emits 'error' on the request;
\* response.destroy(err) makes the pipeline reject, which removes destPath
IdleTimeout ==
  /\ dlVariant = "counted"
  /\ dpc \in {"requesting", "piping"}
  /\ sinceActivity >= DownloadTimeout
  /\ pipeOpen' = FALSE
  /\ destExists' = IF pipeOpen THEN FALSE ELSE destExists
  /\ Reject("timed out")
  /\ KeepClock
  /\ UNCHANGED <<dlVariant, maxRedirects, redirectsLeft, redirectsSeen, followed>>
  /\ UNCHANGED notDownload

InitDownload ==
  /\ DownloadParked
  /\ ConcurrentParked
  /\ CacheParked
  /\ RefreshParked
  /\ CronParked
  /\ LookupParked
  /\ ResolveParked
  /\ FetchParked
  /\ HandlerParked
  /\ ExtractParked
  /\ FirstFieldParked

NextDownload ==
  \/ \E variant \in DownloadVariants, m \in 0..DefaultMaxRedirects :
       downloadToFile(variant, m)
  \/ OnRedirect
  \/ OnErrorStatus
  \/ OnOk
  \/ PipelineResolves
  \/ PipelineRejects
  \/ RequestError
  \/ DownloadTick
  \/ DataArrives
  \/ IdleTimeout

SpecDownload == InitDownload /\ [][NextDownload]_vars

\* C23: a download follows at most MAX_REDIRECTS redirect responses; the next
\* redirect response rejects the download instead of being followed.
C23_RedirectsBounded ==
  /\ followed <= maxRedirects
  /\ redirectsSeen <= maxRedirects + 1
  /\ redirectsSeen > maxRedirects =>
       (dpc = "rejected" /\ dlError = "too many redirects")

\* the counted variant after MAX_REDIRECTS redirects and one more
C23_Witness ==
  /\ dlVariant = "counted"
  /\ maxRedirects = DefaultMaxRedirects
  /\ followed = maxRedirects
  /\ redirectsSeen = maxRedirects + 1
  /\ dpc = "rejected"
  /\ dlError = "too many redirects"

\* C38: every download attempt terminates: it either completes the archive
\* file or fails with an error once the configured download timeout has
\* elapsed since the attempt began, also when the server keeps the
\* connection active by sending data slowly.
C38_TotalTimeout ==
  dpc \in {"requesting", "piping"} => sinceStart <= DownloadTimeout

\* the same, of the variant that arms the timers only
C38_CountedVariant == dlVariant = "counted" => C38_TotalTimeout

\* the same, of an attempt on whose socket nothing happened since it began
C38_IdleSocket ==
  (dlVariant = "counted" /\ sinceActivity = sinceStart) => C38_TotalTimeout

\* ---------------------------------------------------------------------------
\* server.js: POST /check-flight with several requests in progress.  Each
\* request runs the handler; fetchTailNumber and
\* resolveAircraftSpecsByNNumber are the calls modelled above, here one step
\* from call to result.
\* ---------------------------------------------------------------------------
notConcurrent == <<coreVars, downloadVars, cacheVars, firstFieldVars>>

\* what fetchTailNumber can return
TailResults ==
  {FailedTail, [ok |-> TRUE, registration |-> Null]}
  \cup {[ok |-> TRUE, registration |-> reg] : reg \in Registrations}

\* what resolveAircraftSpecsByNNumber can resolve with
SpecsResults ==
  {NoRecord}
  \cup {[year |-> y, manufacturer |-> <<"a">>, model |-> <<"b">>,
         aircraftType |-> <<"a", SPACE, "b">>] : y \in Years}

\* the key of the remote lookup: flight number and date as the handler passes them
FlightKey(body) ==
  [flightNumber |-> normalizeFlightNumber(body.flightNumber),
   date |-> normalizeDate(body.date)]

Count(calls, key) == Len(SelectSeq(calls, LAMBDA k : k = key))

\* the requests awaiting fetchTailNumber for a key
AwaitingTail(key) ==
  {j \in RequestIds : creqs[j].pc = "awaitTail" /\ FlightKey(creqs[j].body) = key}

\* the requests awaiting resolveAircraftSpecsByNNumber
AwaitingSpecs == {j \in RequestIds : creqs[j].pc = "awaitSpecs"}

NNumberOf(j) == normalizeNNumberFromRegistration(creqs[j].tail.registration)

Answered(i, answer) ==
  creqs' = [creqs EXCEPT ![i].pc = "responded", ![i].answer = answer]

\* request i arrives: the handler runs to `await fetchTailNumber(...)` or to
\* its answer
Arrive(i, r) ==
  /\ creqs[i].pc = "idle"
  /\ \A j \in RequestIds : j > i => creqs[j].pc = "idle"
  /\ IF \/ ~Valid(r)
        \/ normalizeFlightNumber(r.flightNumber) = <<>>
        \/ normalizeDate(r.date) = "null"
     THEN /\ creqs' = [creqs EXCEPT ![i] =
                 [pc |-> "responded", body |-> r, tail |-> FailedTail,
                  answer |-> Refusal(400, MSG_INVALID_INPUT)]]
          /\ UNCHANGED <<remoteCalls, joined>>
     ELSE IF getPublicBypassResult(normalizeFlightNumber(r.flightNumber),
                                   normalizeDate(r.date)) # NoResponse
       THEN /\ creqs' = [creqs EXCEPT ![i] =
                   [pc |-> "responded", body |-> r, tail |-> FailedTail,
                    answer |->
                      [status |-> 200, ok |-> TRUE,
                       flightNumber |-> normalizeFlightNumber(r.flightNumber),
                       date |-> normalizeDate(r.date),
                       bypass |-> getPublicBypassResult(
                                    normalizeFlightNumber(r.flightNumber),
                                    normalizeDate(r.date))]]]
            /\ UNCHANGED <<remoteCalls, joined>>
       ELSE IF ~rapidApiKey
         THEN /\ creqs' = [creqs EXCEPT ![i] =
                     [pc |-> "responded", body |-> r, tail |-> FailedTail,
                      answer |-> Refusal(500, MSG_NOT_CONFIGURED)]]
              /\ UNCHANGED <<remoteCalls, joined>>
         ELSE /\ creqs' = [creqs EXCEPT ![i] =
                     [pc |-> "awaitTail", body |-> r, tail |-> FailedTail,
                      answer |-> NoResponse]]
              /\ remoteCalls' = Append(remoteCalls, FlightKey(r))
              /\ joined' = [joined EXCEPT ![i] =
                   IF AwaitingTail(FlightKey(r)) = {} THEN 0
                   ELSE CHOOSE j \in AwaitingTail(FlightKey(r)) : TRUE]
  /\ UNCHANGED scanCalls
  /\ UNCHANGED notConcurrent

\* request i's fetchTailNumber returns t: the handler answers, or calls
\* resolveAircraftSpecsByNNumber and awaits it
TailSettles(i, t) ==
  /\ creqs[i].pc = "awaitTail"
  /\ IF ~t.ok
     THEN /\ creqs' = [creqs EXCEPT ![i].pc = "responded", ![i].tail = t,
                         ![i].answer = Refusal(200, MSG_UNAVAILABLE)]
          /\ UNCHANGED scanCalls
     ELSE IF t.registration = Null
       THEN /\ creqs' = [creqs EXCEPT ![i].pc = "responded", ![i].tail = t,
                           ![i].answer = Refusal(200, MSG_NOT_PUBLISHED)]
            /\ UNCHANGED scanCalls
       ELSE /\ creqs' = [creqs EXCEPT ![i].pc = "awaitSpecs", ![i].tail = t]
            /\ scanCalls' =
                 Append(scanCalls, normalizeNNumberFromRegistration(t.registration))
  /\ UNCHANGED <<remoteCalls, joined>>
  /\ UNCHANGED notConcurrent

\* request i's resolveAircraftSpecsByNNumber resolves with sp
SpecsSettle(i, sp) ==
  /\ creqs[i].pc = "awaitSpecs"
  /\ Answered(i,
       IF sp = NoRecord THEN Refusal(200, MSG_NOT_IN_REGISTRY)
       ELSE IF sp.year = <<>> THEN Refusal(200, MSG_NOT_IN_REGISTRY)
       ELSE [status |-> 200, ok |-> TRUE,
             flightNumber |-> normalizeFlightNumber(creqs[i].body.flightNumber),
             date |-> normalizeDate(creqs[i].body.date),
             registration |-> creqs[i].tail.registration,
             nNumber |-> NNumberOf(i),
             year |-> sp.year,
             manufacturer |-> sp.manufacturer,
             model |-> sp.model,
             aircraftType |-> sp.aircraftType,
             age |-> IF NowYear - YearNumber(sp.year) > 0
                     THEN NowYear - YearNumber(sp.year) ELSE 0])
  /\ UNCHANGED <<remoteCalls, scanCalls, joined>>
  /\ UNCHANGED notConcurrent

\* request i's resolveAircraftSpecsByNNumber rejects: catch (err)
SpecsReject(i) ==
  /\ creqs[i].pc = "awaitSpecs"
  /\ Answered(i, Refusal(500, MSG_SERVER_ERROR))
  /\ UNCHANGED <<remoteCalls, scanCalls, joined>>
  /\ UNCHANGED notConcurrent

InitConcurrent ==
  /\ ConcurrentParked
  /\ DownloadParked
  /\ CacheParked
  /\ RefreshParked
  /\ CronParked
  /\ LookupParked
  /\ ResolveParked
  /\ FetchParked
  /\ HandlerParked
  /\ ExtractParked
  /\ FirstFieldParked

NextConcurrent ==
  \/ \E i \in RequestIds, r \in Requests : Arrive(i, r)
  \/ \E i \in RequestIds, t \in TailResults : TailSettles(i, t)
  \/ \E i \in RequestIds, sp \in SpecsResults : SpecsSettle(i, sp)
  \/ \E i \in RequestIds : SpecsReject(i)

SpecConcurrent == InitConcurrent /\ [][NextConcurrent]_vars

\* C24: requests for the same uncached key that are in progress together are
\* collapsed into one operation: while two requests await the remote call for
\* the same flight number and date, fetchTailNumber has been called once for
\* that key, and a request that arrived while another awaited the same key
\* gets that request's result; likewise one registry scan for requests
\* awaiting the same tail number.
C24_OneOperationPerKey ==
  /\ \A i \in RequestIds :
       (/\ creqs[i].pc = "awaitTail"
        /\ Cardinality(AwaitingTail(FlightKey(creqs[i].body))) > 1) =>
         Count(remoteCalls, FlightKey(creqs[i].body)) = 1
  /\ \A i \in RequestIds :
       (/\ joined[i] # 0
        /\ creqs[i].pc # "awaitTail"
        /\ creqs[joined[i]].pc # "awaitTail") =>
         creqs[i].tail = creqs[joined[i]].tail
  /\ \A i \in AwaitingSpecs :
       Cardinality({j \in AwaitingSpecs : NNumberOf(j) = NNumberOf(i)}) > 1 =>
         Count(scanCalls, NNumberOf(i)) = 1

\* the permit count N of the concurrency gate, at its minimum
GatePermits == 1

\* C27: at any time at most N registry scans are in progress (hold a permit
\* of the gate); a scan requested while N are in progress waits for a
\* release.
C27_AtMostNScans ==
  Cardinality(AwaitingSpecs) <= GatePermits

\* ---------------------------------------------------------------------------
\* Result Cache + Coalescer, from spec section 4.6: get, set, getOrCreate and
\* the in-flight tickets of one instance.  The clock advances between the
\* operations.
\* ---------------------------------------------------------------------------
MaxClock == 2

MaxEntriesConfigured == 2

\* the TTL getOrCreate caches a result with
ResultTtl == 2

CacheValues == {"v1", "v2"}

Ttls == 1..2

notCache == <<coreVars, downloadVars, concurrentVars, firstFieldVars>>

\* the positions of a key in the entries
Positions(c, key) == {i \in 1..Len(c) : c[i].key = key}

Without(c, key) == SelectSeq(c, LAMBDA e : e.key # key)

\* an entry is live until its expiry instant
Live(e, t) == t < e.expiry

\* get(key) without the expiry check
GetValue_IgnoresExpiry(c, key, t) ==
  IF Positions(c, key) = {} THEN NoValue
  ELSE c[CHOOSE i \in Positions(c, key) : TRUE].value

\* get(key): the live value, or null if absent or expired
GetValue(c, key, t) ==
  IF Positions(c, key) = {} THEN NoValue
  ELSE LET e == c[CHOOSE i \in Positions(c, key) : TRUE]
       IN IF Live(e, t) THEN e.value ELSE NoValue

\* get(key) on the entries: an expired entry is removed, a hit is re-ordered
\* and keeps its expiry
AfterGet(c, key, t) ==
  IF Positions(c, key) = {} THEN c
  ELSE LET e == c[CHOOSE i \in Positions(c, key) : TRUE]
       IN IF Live(e, t) THEN Append(Without(c, key), e) ELSE Without(c, key)

\* set(key, value, ttl): a no-op when the cache is disabled; else insert or
\* overwrite, and evict the least recently touched entry beyond the capacity
AfterSet(c, key, value, ttl, t, max) ==
  IF max <= 0 THEN c
  ELSE LET put == Append(Without(c, key),
                         [key |-> key, value |-> value, expiry |-> t + ttl])
       IN IF Len(put) > max THEN Tail(put) ELSE put

\* the keys that set(key, ...) pushes out of the entries
EvictedBy(c, key, max) ==
  IF max <= 0 THEN {}
  ELSE IF Len(Without(c, key)) + 1 > max THEN {Without(c, key)[1].key} ELSE {}

\* what a set does to the record of the sets
Recorded(key, value, ttl, t) ==
  /\ lastSet' = [lastSet EXCEPT ![key] = [value |-> value, expiry |-> t + ttl]]
  /\ evicted' =
       IF maxEntries <= 0 THEN evicted \cup {key}
       ELSE (evicted \ {key}) \cup EvictedBy(cache, key, maxEntries)

\* a get with what was known of its key when it was made
GetRecord(key) ==
  [key |-> key, value |-> GetValue(cache, key, now), at |-> now,
   set |-> lastSet[key], evicted |-> key \in evicted]

Tick ==
  /\ now < MaxClock
  /\ now' = now + 1
  /\ UNCHANGED <<maxEntries, cache, got, lastSet, evicted, tickets, ops,
                 callers, factoryCalls>>
  /\ UNCHANGED notCache

CacheSet(key, value, ttl) ==
  /\ cache' = AfterSet(cache, key, value, ttl, now, maxEntries)
  /\ Recorded(key, value, ttl, now)
  /\ UNCHANGED <<now, maxEntries, got, tickets, ops, callers, factoryCalls>>
  /\ UNCHANGED notCache

CacheGet(key) ==
  /\ got' = GetRecord(key)
  /\ cache' = AfterGet(cache, key, now)
  /\ UNCHANGED <<now, maxEntries, lastSet, evicted, tickets, ops, callers,
                 factoryCalls>>
  /\ UNCHANGED notCache

\* the result of an underlying operation that failed
Failure == "failed"

Outcomes == {"cacheable", "uncacheable", "failed"}

\* the ticket stays when the operation failed
TicketsAfterSettle_OnSuccessOnly(key, how) ==
  IF how = "failed" THEN tickets ELSE tickets \ {key}

\* the ticket is removed unconditionally when the operation settles
TicketsAfterSettle(key, how) == tickets \ {key}

\* getOrCreate(key, factory) by caller c: a cache hit is returned; else the
\* caller attaches to the ticket of the key, creating it and running the
\* factory if there is none
getOrCreate(c, key) ==
  /\ callers[c].pc = "idle"
  /\ got' = GetRecord(key)
  /\ cache' = AfterGet(cache, key, now)
  /\ IF GetValue(cache, key, now) # NoValue
     THEN /\ callers' = [callers EXCEPT ![c] =
                 [pc |-> "returned", key |-> key, saw |-> ops[key],
                  hit |-> TRUE, started |-> FALSE,
                  result |-> GetValue(cache, key, now)]]
          /\ UNCHANGED <<tickets, ops, factoryCalls>>
     ELSE IF key \in tickets
       THEN /\ callers' = [callers EXCEPT ![c] =
                   [pc |-> "waiting", key |-> key, saw |-> ops[key],
                    hit |-> FALSE, started |-> FALSE, result |-> NoValue]]
            /\ UNCHANGED <<tickets, ops, factoryCalls>>
       ELSE /\ callers' = [callers EXCEPT ![c] =
                   [pc |-> "waiting", key |-> key, saw |-> ops[key],
                    hit |-> FALSE, started |-> TRUE, result |-> NoValue]]
            /\ tickets' = tickets \cup {key}
            /\ ops' = [ops EXCEPT ![key] = "running"]
            /\ factoryCalls' = [factoryCalls EXCEPT ![key] = @ + 1]
  /\ UNCHANGED <<now, maxEntries, lastSet, evicted>>
  /\ UNCHANGED notCache

\* the underlying operation of a key settles: the result is cached if it is
\* cacheable, the ticket is removed, every caller attached to it gets the
\* result
FactorySettles(key, how, value) ==
  /\ ops[key] = "running"
  /\ ops' = [ops EXCEPT ![key] = IF how = "failed" THEN "failed" ELSE "ok"]
  /\ tickets' = TicketsAfterSettle(key, how)
  /\ IF how = "cacheable"
     THEN /\ cache' = AfterSet(cache, key, value, ResultTtl, now, maxEntries)
          /\ Recorded(key, value, ResultTtl, now)
     ELSE UNCHANGED <<cache, lastSet, evicted>>
  /\ callers' =
       [c \in CallerIds |->
          IF callers[c].pc = "waiting" /\ callers[c].key = key
          THEN [callers[c] EXCEPT
                  !.pc = "returned",
                  !.result = IF how = "failed" THEN Failure ELSE value]
          ELSE callers[c]]
  /\ UNCHANGED <<now, maxEntries, got, factoryCalls>>
  /\ UNCHANGED notCache

InitCache ==
  /\ maxEntries \in 0..MaxEntriesConfigured
  /\ CacheEmpty
  /\ DownloadParked
  /\ ConcurrentParked
  /\ RefreshParked
  /\ CronParked
  /\ LookupParked
  /\ ResolveParked
  /\ FetchParked
  /\ HandlerParked
  /\ ExtractParked
  /\ FirstFieldParked

\* set and get called directly
NextCache ==
  \/ Tick
  \/ \E key \in CacheKeys, value \in CacheValues, ttl \in Ttls :
       CacheSet(key, value, ttl)
  \/ \E key \in CacheKeys : CacheGet(key)

SpecCache == InitCache /\ [][NextCache]_vars

\* the cache as the request handlers use it: through getOrCreate
NextCoalesce ==
  \/ Tick
  \/ \E c \in CallerIds, key \in CacheKeys : getOrCreate(c, key)
  \/ \E key \in CacheKeys, how \in Outcomes, value \in CacheValues :
       FactorySettles(key, how, value)

SpecCoalesce == InitCache /\ [][NextCoalesce]_vars

\* C25: a key has an in-flight ticket exactly while its underlying operation
\* is running (the ticket goes when the operation settles, on success and on
\* failure); a failed result is never cached; a caller that misses the cache
\* after the key's operation failed starts a new operation.
C25_FailureDoesNotPoison ==
  /\ tickets = {k \in CacheKeys : ops[k] = "running"}
  /\ \A i \in 1..Len(cache) : cache[i].value # Failure
  /\ \A c \in CallerIds :
       (callers[c].pc # "idle" /\ callers[c].saw = "failed" /\ ~callers[c].hit)
         => callers[c].started
  /\ \A c \in CallerIds :
       (callers[c].pc = "waiting") => callers[c].key \in tickets

\* caller 1's operation failed; caller 2 asked later and runs a new one
C25_Witness ==
  /\ callers[1].pc = "returned"
  /\ callers[1].result = Failure
  /\ callers[2].key = callers[1].key
  /\ callers[2].saw = "failed"
  /\ callers[2].started
  /\ callers[2].pc = "waiting"
  /\ factoryCalls[callers[1].key] = 2

\* the value got was set last for its key and that set's expiry has not passed
GotIsLive ==
  got.value # NoValue =>
    /\ got.set # NoRecord
    /\ got.value = got.set.value
    /\ got.at <= got.set.expiry

\* a key set last with an expiry that has passed is not returned
GotNullAfterExpiry ==
  (got.set # NoRecord /\ got.at > got.set.expiry) =>
    got.value = NoValue

\* C26: after any sequence of set and get operations, get(key) returns a
\* value only if the key was set with an expiry instant that has not passed;
\* an entry set with TTL T is returned by get before T elapses, and get
\* returns null for it afterwards.
C26_EntryReturnedUntilExpiry ==
  got # NoRecord =>
    /\ GotIsLive
    /\ (got.set # NoRecord /\ got.at < got.set.expiry) =>
         got.value = got.set.value
    /\ GotNullAfterExpiry

\* C26 as amended: the same, for an entry that did not leave the cache for
\* capacity (and was stored at all: the cache is not disabled).
C26_EntryReturnedUntilExpiryOrEviction ==
  got # NoRecord =>
    /\ GotIsLive
    /\ (/\ got.set # NoRecord
        /\ got.at < got.set.expiry
        /\ ~got.evicted) =>
         got.value = got.set.value
    /\ GotNullAfterExpiry

\* an entry set with TTL 2 at instant 0 was returned at instant 1 and is
\* null at instant 2
C26_Witness ==
  /\ maxEntries > 0
  /\ got # NoRecord
  /\ got.set # NoRecord
  /\ got.set.expiry = 2
  /\ got.at = 2
  /\ got.value = NoValue
  /\ now = 2

\* ---------------------------------------------------------------------------
\* server.js, lines 434-737: findAircraftInMasterCsv and findAircraftInAcftRef
\* with the column positions fixed in MASTER_COLS and ACFTREF_COLS.  The line
\* handler has no schema: the first non-empty line is skipped whatever it
\* holds, and every later line is compared through the first-column fast path.
\* ---------------------------------------------------------------------------
MASTER_COLS ==
  [nNumberIdx |-> 0,
   mfrMdlCodeIdx |-> 2,
   yearIdx |-> 4,
   kitManufacturerIdx |-> 31,
   kitModelIdx |-> 32]

ACFTREF_COLS ==
  [codeIdx |-> 0, manufacturerIdx |-> 1, modelIdx |-> 2, typeAcftIdx |-> 3]

\* rl.on('line', ...) of either function, before a match
OnLineFixed(line, candidate, record) ==
  /\ lkState = "reading"
  /\ lineNo < MaxRows
  /\ lineNo' = lineNo + 1
  /\ IF line = <<>>
     THEN UNCHANGED <<lkState, settled, found, sawFirstLine, outcome, result,
                      foundLine, firstLine>>
     ELSE /\ sawFirstLine' = TRUE
          /\ firstLine' =
               IF sawFirstLine THEN firstLine ELSE FirstLineFacts(line, FALSE)
          /\ IF ~sawFirstLine \/ candidate # needle
             THEN UNCHANGED <<lkState, settled, found, outcome, result,
                              foundLine>>
             ELSE /\ found' = record
                  /\ foundLine' = line
                  /\ lkState' = "matched"
                  /\ done(NoError, record)
  /\ UNCHANGED <<table, lkKey, needle, schema, errored, firstRow>>
  /\ UNCHANGED notLookup

MasterOnLineFixed(line) ==
  /\ table = "master"
  /\ OnLineFixed(line,
         normalizeNNumberField(readFirstCsvField(line)),
         MasterRecord(MasterWanted(MASTER_COLS), line))

AcftRefOnLineFixed(line) ==
  /\ table = "acftref"
  /\ OnLineFixed(line,
         normalizeNNumberField(normalizeNNumberField(readFirstCsvField(line))),
         AcftRefRecord(AcftRefWanted(ACFTREF_COLS), line))

NextLookupFixed ==
  \/ \E nNumber \in Keys : findAircraftInMasterCsv(nNumber)
  \/ \E mfrMdlCode \in Keys : findAircraftInAcftRef(mfrMdlCode)
  \/ \E line \in Lines : MasterOnLineFixed(line)
  \/ \E line \in Lines : AcftRefOnLineFixed(line)
  \/ OnLineFound
  \/ OnClose
  \/ \E err \in Errors : OnError(err)

SpecLookupFixed == InitLookup /\ [][NextLookupFixed]_vars

\* C28: the first non-empty line of a registry file is consumed as a header,
\* and never matched as a data row, exactly when it is recognized as a
\* header; when it is not recognized the fixed positional schema is used and
\* the line is itself searched as a data row, so a record on line 1 of a
\* headerless file is found.
C28_FirstLineHeaderOrData ==
  firstLine # NoLine =>
    /\ firstLine.recognized => ~firstLine.matched
    /\ (~firstLine.recognized /\ firstLine.carriesKey) => firstLine.matched
    /\ (~firstLine.recognized /\ firstLine.carriesKey /\ lineNo = 1) =>
         found # NoRecord

\* C29: the schema resolver returns a header-derived descriptor only when the
\* first line names both the identifier column (N-NUMBER) and the year
\* column (YEAR MFR), names compared after BOM strip, trim and upper-casing;
\* in every other case the scan uses the fixed positions: identifier 0, join
\* key 2, year 4, kit manufacturer 31, kit model 32.
C29_SchemaFromHeader ==
  (table = "master" /\ firstLine # NoLine) =>
    IF firstLine.nNumberCol # NullIdx /\ firstLine.yearCol # NullIdx
    THEN /\ schema.nNumberIdx = firstLine.nNumberCol
         /\ schema.yearIdx = firstLine.yearCol
    ELSE /\ schema.nNumberIdx = 0
         /\ schema.mfrMdlCodeIdx = 2
         /\ schema.yearIdx = 4
         /\ schema.kitManufacturerIdx = 31
         /\ schema.kitModelIdx = 32

\* a first line that names the identifier column and not the year column: the
\* scan runs on the fixed positions
C29_Witness ==
  /\ table = "master"
  /\ firstLine # NoLine
  /\ firstLine.nNumberCol = 0
  /\ firstLine.yearCol = NullIdx
  /\ schema.yearIdx = 4
  /\ schema.kitModelIdx = 32

\* a first line with blanks around lower-case names: recognized
C29_HeaderWitness ==
  /\ table = "master"
  /\ firstLine # NoLine
  /\ firstLine.recognized
  /\ schema.nNumberIdx = 0
  /\ schema.yearIdx = 1
  /\ schema.mfrMdlCodeIdx = NullIdx

\* ---------------------------------------------------------------------------
\* server.js: the identifier of one line, read by the first-column fast path
\* of findAircraftInMasterCsv and by the full tokenizer.
\* ---------------------------------------------------------------------------
notFirstField == <<coreVars, downloadVars, concurrentVars, cacheVars>>

\* const first = normalizeNNumberField(readFirstCsvField(line))
FastPath ==
  /\ fastFirst = NotRead
  /\ fastFirst' = normalizeNNumberField(readFirstCsvField(csvLine))
  /\ UNCHANGED <<csvLine, tokenFirst, wantedIndices, selected, tokens, parsed>>
  /\ UNCHANGED notFirstField

\* normalizeNNumberField(parseCsvLine(line)[0])
Tokenize ==
  /\ tokenFirst = NotRead
  /\ tokenFirst' = normalizeNNumberField(parseCsvLine(csvLine)[1])
  /\ UNCHANGED <<csvLine, fastFirst, wantedIndices, selected, tokens, parsed>>
  /\ UNCHANGED notFirstField

InitFirstField ==
  /\ csvLine \in Lines
  /\ fastFirst = NotRead
  /\ tokenFirst = NotRead
  /\ TokenizersParked
  /\ DownloadParked
  /\ ConcurrentParked
  /\ CacheParked
  /\ LookupParked
  /\ ResolveParked
  /\ FetchParked
  /\ HandlerParked
  /\ ExtractParked
  /\ RefreshParked
  /\ CronParked

NextFirstField == FastPath \/ Tokenize

SpecFirstField == InitFirstField /\ [][NextFirstField]_vars

\* C30: for every line, the identifier obtained by the first-column fast path
\* (readFirstCsvField followed by normalization) equals the normalized value
\* of field 0 produced by full tokenization of that line.
C30_FastPathIsField0 ==
  (fastFirst # NotRead /\ tokenFirst # NotRead) => fastFirst = tokenFirst

\* ---------------------------------------------------------------------------
\* server.js: parseCsvFieldsAt and parseCsvLine on one line, for one set of
\* wanted column indices.
\* ---------------------------------------------------------------------------
\* the highest column index a caller asks for
MaxWanted == 2
\* the arrays makeWantedCsvIndices is called with: null columns included
WantedInputs == SUBSET (NullIdx..MaxWanted)

\* parseCsvFieldsAt(line, makeWantedCsvIndices(indices))
ParseFieldsAt ==
  /\ "at" \notin parsed
  /\ selected' = parseCsvFieldsAt(csvLine, makeWantedCsvIndices(wantedIndices))
  /\ parsed' = parsed \cup {"at"}
  /\ UNCHANGED <<csvLine, fastFirst, tokenFirst, wantedIndices, tokens>>
  /\ UNCHANGED notFirstField

\* parseCsvLine(line)
ParseLine ==
  /\ "line" \notin parsed
  /\ tokens' = parseCsvLine(csvLine)
  /\ parsed' = parsed \cup {"line"}
  /\ UNCHANGED <<csvLine, fastFirst, tokenFirst, wantedIndices, selected>>
  /\ UNCHANGED notFirstField

InitTokenizers ==
  /\ csvLine \in Lines
  /\ wantedIndices \in WantedInputs
  /\ selected = <<>>
  /\ tokens = <<>>
  /\ parsed = {}
  /\ fastFirst = NotRead
  /\ tokenFirst = NotRead
  /\ DownloadParked
  /\ ConcurrentParked
  /\ CacheParked
  /\ LookupParked
  /\ ResolveParked
  /\ FetchParked
  /\ HandlerParked
  /\ ExtractParked
  /\ RefreshParked
  /\ CronParked

NextTokenizers == ParseFieldsAt \/ ParseLine

SpecTokenizers == InitTokenizers /\ [][NextTokenizers]_vars

\* both tokenizers have returned
BothParsed == parsed = {"at", "line"}

\* C31: for every non-empty line and every set of wanted column indices,
\* parseCsvFieldsAt returns for each wanted index that exists in the line
\* exactly the value parseCsvLine returns at that index, and returns no entry
\* for unwanted indices or for indices beyond the line's last field.
C31_SelectedAreTokens ==
  (BothParsed /\ csvLine # <<>>) =>
    /\ DOMAIN selected = {n \in wantedIndices : 0 <= n /\ n < Len(tokens)}
    /\ \A n \in DOMAIN selected : selected[n] = tokens[n + 1]

\* a line of two fields, columns 0 and 2 wanted: column 0 alone is returned
C31_Witness ==
  /\ BothParsed
  /\ wantedIndices = {0, 2}
  /\ Len(tokens) = 2
  /\ tokens[1] # <<>>
  /\ DOMAIN selected = {0}
  /\ selected[0] = tokens[1]

\* the position of the delimiter that ends column idx of the line, counted
\* from 1: the comma outside quotes that follows idx others; 0 when the line
\* has no such delimiter
RECURSIVE DelimiterFrom(_, _, _, _)
DelimiterFrom(line, i, inQuotes, left) ==
  IF i > Len(line) THEN 0
  ELSE IF inQuotes
    THEN IF line[i] = QUOTE
      THEN IF i + 1 <= Len(line) /\ line[i + 1] = QUOTE
        THEN DelimiterFrom(line, i + 2, TRUE, left)
        ELSE DelimiterFrom(line, i + 1, FALSE, left)
      ELSE DelimiterFrom(line, i + 1, TRUE, left)
    ELSE IF line[i] = QUOTE
      THEN DelimiterFrom(line, i + 1, TRUE, left)
      ELSE IF line[i] = COMMA
        THEN IF left = 0 THEN i
             ELSE DelimiterFrom(line, i + 1, FALSE, left - 1)
        ELSE DelimiterFrom(line, i + 1, FALSE, left)

DelimiterEnding(line, idx) == DelimiterFrom(line, 1, FALSE, idx)

\* the two lines are identical up to and including position n
SameUpTo(a, b, n) ==
  Len(a) >= n /\ Len(b) >= n /\ SubSeq(a, 1, n) = SubSeq(b, 1, n)

\* C32: the selective tokenizer stops at the delimiter that ends the highest
\* wanted index: two lines that are identical up to and including that
\* delimiter give the same result whatever follows it, including unbalanced
\* quotes in the remainder.
C32_RestOfLineIgnored ==
  ("at" \in parsed /\ makeWantedCsvIndices(wantedIndices).max >= 0) =>
    LET wanted == makeWantedCsvIndices(wantedIndices)
        end == DelimiterEnding(csvLine, wanted.max)
    IN end > 0 =>
         \A other \in Lines :
           SameUpTo(csvLine, other, end) =>
             parseCsvFieldsAt(other, wanted) = selected

\* column 0 wanted, and an opening quote after the delimiter that ends it
C32_Witness ==
  /\ "at" \in parsed
  /\ wantedIndices = {0}
  /\ csvLine = <<"n", COMMA, QUOTE>>
  /\ DOMAIN selected = {0}
  /\ selected[0] = <<"n">>

\* no quote character at positions a..b of the line
QuoteFree(line, a, b) == \A i \in a..b : line[i] # QUOTE

\* the line opens a quote and never closes it: the whole rest is one field
UnterminatedField ==
  (csvLine # <<>> /\ csvLine[1] = QUOTE /\ QuoteFree(csvLine, 2, Len(csvLine)))
    => tokens = <<Tail(csvLine)>>

\* the line is one quoted field: delimiters inside do not split it
QuotedField ==
  (Len(csvLine) >= 2 /\ csvLine[1] = QUOTE /\ csvLine[Len(csvLine)] = QUOTE
     /\ QuoteFree(csvLine, 2, Len(csvLine) - 1))
    => tokens = <<SubSeq(csvLine, 2, Len(csvLine) - 1)>>

\* a doubled quote inside a quoted field is one quote character
DoubledQuote ==
  \A i \in 2..(Len(csvLine) - 1) :
    (/\ csvLine[1] = QUOTE
     /\ csvLine[i] = QUOTE
     /\ csvLine[i + 1] = QUOTE
     /\ QuoteFree(csvLine, 2, i - 1)
     /\ QuoteFree(csvLine, i + 2, Len(csvLine)))
      => tokens = <<SubSeq(csvLine, 2, i - 1) \o <<QUOTE>>
                     \o SubSeq(csvLine, i + 2, Len(csvLine))>>

\* C33: the tokenizer returns a result for every input line and never fails:
\* a doubled quote inside a quoted field yields one quote character, a
\* delimiter inside quotes does not split the field, and after an
\* unterminated opening quote the whole rest of the line belongs to that one
\* field.  The selective tokenizer returns the same field.
C33_TokenizerTotal ==
  /\ "line" \in parsed =>
       /\ Len(tokens) >= 1
       /\ UnterminatedField
       /\ QuotedField
       /\ DoubledQuote
  /\ (BothParsed /\ csvLine # <<>> /\ 0 \in wantedIndices) =>
       (0 \in DOMAIN selected /\ selected[0] = tokens[1])

\* an opening quote, a delimiter, a character: one field of two characters
C33_Witness ==
  /\ BothParsed
  /\ csvLine = <<QUOTE, COMMA, "n">>
  /\ tokens = <<(<<COMMA, "n">>)>>
  /\ 0 \in wantedIndices
  /\ selected[0] = <<COMMA, "n">>

\* three quotes: the field is one quote character
C33_DoubledWitness ==
  /\ "line" \in parsed
  /\ csvLine = <<QUOTE, QUOTE, QUOTE>>
  /\ tokens = <<(<<QUOTE>>)>>

\* ---------------------------------------------------------------------------
\* server.js, lines 220-256: the fetchTailNumber that returns the
\* registration or null, and awaits response.json() outside any try block.
\* ---------------------------------------------------------------------------
\* what that function returns: the registration, or null
Returned(value) == [returned |-> value]

\* the function up to `await fetchImpl(...)`; a fetchImpl that is no function
\* throws inside the try block, which returns null
fetchTailNumberNullable(apiKey, hasFetchImpl) ==
  /\ fpc = "idle"
  /\ hpc = "idle"
  /\ aborted' = FALSE
  /\ elapsed' = FALSE
  /\ IF ~apiKey \/ ~hasFetchImpl
     THEN /\ fpc' = "returned"
          /\ tailResult' = Returned(Null)
          /\ UNCHANGED <<timerArmed, fetchCalls, tailData>>
     ELSE /\ fpc' = "awaitFetch"
          /\ timerArmed' = TRUE
          /\ fetchCalls' = fetchCalls + 1
          /\ UNCHANGED <<tailResult, tailData>>
  /\ UNCHANGED <<resolveVars, handlerVars>>
  /\ UNCHANGED notRequest

\* fetchImpl resolves with the response headers: `if (!response.ok) return null`
FetchResolvesNullable(ok) ==
  /\ fpc = "awaitFetch"
  /\ ~aborted
  /\ timerArmed' = FALSE
  /\ IF ok
     THEN fpc' = "awaitJson" /\ UNCHANGED tailResult
     ELSE fpc' = "returned" /\ tailResult' = Returned(Null)
  /\ UNCHANGED <<aborted, elapsed, fetchCalls, tailData>>
  /\ UNCHANGED <<resolveVars, handlerVars>>
  /\ UNCHANGED notRequest

\* fetchImpl rejects: `catch { return null; }`
FetchRejectsNullable ==
  /\ fpc = "awaitFetch"
  /\ timerArmed' = FALSE
  /\ fpc' = "returned"
  /\ tailResult' = Returned(Null)
  /\ UNCHANGED <<aborted, elapsed, fetchCalls, tailData>>
  /\ UNCHANGED <<resolveVars, handlerVars>>
  /\ UNCHANGED notRequest

\* `const data = await response.json()` resolves with the parsed body d
JsonResolvesUnguarded(d) ==
  /\ fpc = "awaitJson"
  /\ fpc' = "returned"
  /\ tailResult' = Returned(extractRegistrationFromFlightResponse(d))
  /\ tailData' = d
  /\ UNCHANGED <<timerArmed, aborted, elapsed, fetchCalls>>
  /\ UNCHANGED <<resolveVars, handlerVars>>
  /\ UNCHANGED notRequest

\* response.json() rejects: nothing catches it, the function's promise rejects
JsonRejectsUnguarded ==
  /\ fpc = "awaitJson"
  /\ fpc' = "rejected"
  /\ UNCHANGED <<timerArmed, aborted, elapsed, tailResult, fetchCalls, tailData>>
  /\ UNCHANGED <<resolveVars, handlerVars>>
  /\ UNCHANGED notRequest

\* one call of that function
InitFetchNullable ==
  /\ FetchParked
  /\ HandlerParked
  /\ ResolveParked
  /\ ExtractParked
  /\ RestParked
  /\ LookupParked
  /\ RefreshParked
  /\ CronParked

NextFetchNullable ==
  \/ \E apiKey \in BOOLEAN, hasFetchImpl \in BOOLEAN :
       fetchTailNumberNullable(apiKey, hasFetchImpl)
  \/ \E ok \in BOOLEAN : FetchResolvesNullable(ok)
  \/ FetchRejectsNullable
  \/ TimeoutElapses
  \/ \E d \in Responses : JsonResolvesUnguarded(d)
  \/ JsonRejectsUnguarded

SpecFetchNullable == InitFetchNullable /\ [][NextFetchNullable]_vars

\* C37: the remote lookup never rejects: a missing API key, a missing fetch
\* implementation, a thrown or aborted fetch, a non-OK response status and an
\* unparsable response body each yield the value {ok: false, registration:
\* null}, and the fetch implementation is invoked at most once per lookup.
C37_LookupNeverRejects ==
  /\ fpc # "rejected"
  /\ (fpc = "returned" /\ tailData = Unread) => tailResult = FailedTail
  /\ fetchCalls <= 1

====
